---- MODULE Spec2Model ----
(***************************************************************************)
(* A model of the Nachos file system (code/filesys/file_system.cc), its    *)
(* open-file handles (code/filesys/open_file.cc) and the scheduler         *)
(* (code/threads/scheduler.cc).                                            *)
(*                                                                         *)
(* The module holds several specifications over one set of variables:     *)
(*   SpecRW  the reader/writer protocol of OpenFile::ReadAt / WriteAt on   *)
(*           one node of the open-file table, one action per statement;    *)
(*   SpecFS  the file-system facade (Create, Open, close of a handle,      *)
(*           Remove, MakeDir, RemoveDir, Expand) run one call at a time;   *)
(*   SpecPath  the same calls on paths of up to three intermediate         *)
(*           directories (FileSystem::OpenPath);                           *)
(*   SpecConc  Create and Expand of several threads, one step per disk     *)
(*           access;                                                       *)
(*   SpecIO  files read and written through OpenFile handles (Read,        *)
(*           Write, Seek, ReadAt, WriteAt), byte by byte;                  *)
(*   SpecLong  longer runs of the facade on few paths;                     *)
(*   SpecSched  the scheduler's ready lists (ReadyToRun, FindNextToRun,    *)
(*           Run);                                                         *)
(*   SpecRWFair, SpecStarve, SpecRWFin  the reader/writer protocol with    *)
(*           fair scheduling: every call, a schedule of overlapping        *)
(*           readers, and finitely many calls;                             *)
(*   SpecIOConc  Read and Write of several threads on handles of one file; *)
(*   SpecBytes  short runs of SpecIO's calls, single reads and writes      *)
(*           compared byte by byte;                                        *)
(*   SpecTree  short runs of SpecFS's calls, Expand and RemoveDir compared *)
(*           with the persisted header, directory and free map;            *)
(*   SpecReuse  runs where sectors freed by RemoveDir are handed out again *)
(*           while handles on them are open.                               *)
(* The actions of each leave the variables of the others unchanged.        *)
(***************************************************************************)
EXTENDS Integers, Sequences, FiniteSets, TLC

VARIABLES
    \* ---- reader/writer protocol (open_file.cc, ReadAt / WriteAt) ----
    pc,         \* pc[t]: the statement thread t is about to execute
    lectores,   \* node->lectores: readers counted in
    Can_Read,   \* value of semaphore node->Can_Read (guards lectores)
    Can_Write,  \* value of semaphore node->Can_Write (writer exclusion)
    \* ---- file system (file_system.cc, open_file.cc) ----
    disk,       \* disk[s]: what sector s holds
    freeMap,    \* the persisted free bitmap: the sectors whose bit is set
    filetable,  \* filetable[s]: the open-file node of header sector s
    handles,    \* handles[s]: live OpenFile objects Open returned for s
    fault,      \* "none", or how the run aborted
    calls,      \* file-system calls made since the format
    \* ---- file-system calls in progress, one disk access at a time ----
    local,      \* local[t]: where thread t is in its call, and its locals
    \* ---- OpenFile objects (open_file.cc) ----
    files,      \* files[k]: handle k, with its cached header and position
    \* ---- scheduler (scheduler.cc) ----
    readyList,  \* readyList[i]: the ready list of tier i, head first
    thread,     \* thread[t]: priority and status of thread t, and when it
                \* was last passed to ReadyToRun
    nextThread, \* what the last FindNextToRun returned
    currentThread, \* the thread Run switched to
    arrivals    \* calls of ReadyToRun made

rwVars == <<pc, lectores, Can_Read, Can_Write>>

fsVars == <<disk, freeMap, filetable, handles, fault, calls>>

ccVars == <<local, files>>

schVars == <<readyList, thread, nextThread, currentThread, arrivals>>

vars == <<pc, lectores, Can_Read, Can_Write,
          disk, freeMap, filetable, handles, fault, calls, local, files,
          readyList, thread, nextThread, currentThread, arrivals>>

(***************************************************************************)
(* Reader / writer protocol                                                *)
(***************************************************************************)

\* Number of threads using handles on the one header sector.
NumThreads == 3

Threads == 1..NumThreads

\* Semaphore::P: wait until value > 0, then decrement (atomic, interrupts off).
SemP(v) == v - 1

SemCanP(v) == v > 0

\* Semaphore::V: increment.
SemV(v) == v + 1

Goto(t, l) == pc' = [pc EXCEPT ![t] = l]

\* ReadAt, lines 123-126: find the node, refresh the cached header.
R_Begin(t) ==
    /\ pc[t] = "idle"
    /\ Goto(t, "r_P1")
    /\ UNCHANGED <<lectores, Can_Read, Can_Write>>
    /\ UNCHANGED <<fsVars, ccVars, schVars>>

\* ReadAt, line 130: node->Can_Read->P().
R_EnterP(t) ==
    /\ pc[t] = "r_P1"
    /\ SemCanP(Can_Read)
    /\ Can_Read' = SemP(Can_Read)
    /\ Goto(t, "r_inc")
    /\ UNCHANGED <<lectores, Can_Write>>
    /\ UNCHANGED <<fsVars, ccVars, schVars>>

\* ReadAt, line 131: node->lectores++.
R_Inc(t) ==
    /\ pc[t] = "r_inc"
    /\ lectores' = lectores + 1
    /\ Goto(t, "r_chk")
    /\ UNCHANGED <<Can_Read, Can_Write>>
    /\ UNCHANGED <<fsVars, ccVars, schVars>>

\* R_FirstNext with the test at line 132 always false: no reader executes
\* Can_Write->P().
R_FirstNext_NoLock(n) == "r_V1"

\* R_FirstNext with the test at line 132 always true: every reader
\* executes Can_Write->P().
R_FirstNext_Always(n) == "r_Pw"

\* ReadAt, line 132: if (node->lectores == 1) the first reader locks writers.
R_FirstNext(n) == IF n = 1 THEN "r_Pw" ELSE "r_V1"

R_Check(t) ==
    /\ pc[t] = "r_chk"
    /\ Goto(t, R_FirstNext(lectores))
    /\ UNCHANGED <<lectores, Can_Read, Can_Write>>
    /\ UNCHANGED <<fsVars, ccVars, schVars>>

\* ReadAt, line 134: node->Can_Write->P().
R_LockWrite(t) ==
    /\ pc[t] = "r_Pw"
    /\ SemCanP(Can_Write)
    /\ Can_Write' = SemP(Can_Write)
    /\ Goto(t, "r_V1")
    /\ UNCHANGED <<lectores, Can_Read>>
    /\ UNCHANGED <<fsVars, ccVars, schVars>>

\* ReadAt, line 136: node->Can_Read->V().
R_EnterV(t) ==
    /\ pc[t] = "r_V1"
    /\ Can_Read' = SemV(Can_Read)
    /\ Goto(t, "r_read")
    /\ UNCHANGED <<lectores, Can_Write>>
    /\ UNCHANGED <<fsVars, ccVars, schVars>>

\* ReadAt, line 139: Internal_ReadAt, the read section.
R_Read(t) ==
    /\ pc[t] = "r_read"
    /\ Goto(t, "r_P2")
    /\ UNCHANGED <<lectores, Can_Read, Can_Write>>
    /\ UNCHANGED <<fsVars, ccVars, schVars>>

\* ReadAt, line 141: node->Can_Read->P().
R_ExitP(t) ==
    /\ pc[t] = "r_P2"
    /\ SemCanP(Can_Read)
    /\ Can_Read' = SemP(Can_Read)
    /\ Goto(t, "r_dec")
    /\ UNCHANGED <<lectores, Can_Write>>
    /\ UNCHANGED <<fsVars, ccVars, schVars>>

\* ReadAt, line 142: node->lectores--.
R_Dec(t) ==
    /\ pc[t] = "r_dec"
    /\ lectores' = lectores - 1
    /\ Goto(t, "r_chk2")
    /\ UNCHANGED <<Can_Read, Can_Write>>
    /\ UNCHANGED <<fsVars, ccVars, schVars>>

\* R_LastNext with the test at line 143 always false: no reader executes
\* Can_Write->V().
R_LastNext_NoUnlock(n) == "r_V2"

\* ReadAt, line 143: if (node->lectores == 0) the last reader unlocks writers.
R_LastNext(n) == IF n = 0 THEN "r_Vw" ELSE "r_V2"

R_CheckLast(t) ==
    /\ pc[t] = "r_chk2"
    /\ Goto(t, R_LastNext(lectores))
    /\ UNCHANGED <<lectores, Can_Read, Can_Write>>
    /\ UNCHANGED <<fsVars, ccVars, schVars>>

\* ReadAt, line 145: node->Can_Write->V().
R_UnlockWrite(t) ==
    /\ pc[t] = "r_Vw"
    /\ Can_Write' = SemV(Can_Write)
    /\ Goto(t, "r_V2")
    /\ UNCHANGED <<lectores, Can_Read>>
    /\ UNCHANGED <<fsVars, ccVars, schVars>>

\* ReadAt, line 147: node->Can_Read->V(), then return.
R_ExitV(t) ==
    /\ pc[t] = "r_V2"
    /\ Can_Read' = SemV(Can_Read)
    /\ Goto(t, "idle")
    /\ UNCHANGED <<lectores, Can_Write>>
    /\ UNCHANGED <<fsVars, ccVars, schVars>>

\* WriteAt, lines 159-168: grow the file if needed, find the node, refresh
\* the cached header; no semaphore is touched before line 172.
W_Begin(t) ==
    /\ pc[t] = "idle"
    /\ Goto(t, "w_P")
    /\ UNCHANGED <<lectores, Can_Read, Can_Write>>
    /\ UNCHANGED <<fsVars, ccVars, schVars>>

\* W_CanLock with a P() that does not wait: the writer enters at once.
W_CanLock_NoWait(v) == TRUE

\* WriteAt, line 172: node->Can_Write->P() blocks while the value is 0.
W_CanLock(v) == SemCanP(v)

W_Lock(t) ==
    /\ pc[t] = "w_P"
    /\ W_CanLock(Can_Write)
    /\ Can_Write' = SemP(Can_Write)
    /\ Goto(t, "w_write")
    /\ UNCHANGED <<lectores, Can_Read>>
    /\ UNCHANGED <<fsVars, ccVars, schVars>>

\* WriteAt, line 174: Internal_WriteAt, the write section.
W_Write(t) ==
    /\ pc[t] = "w_write"
    /\ Goto(t, "w_V")
    /\ UNCHANGED <<lectores, Can_Read, Can_Write>>
    /\ UNCHANGED <<fsVars, ccVars, schVars>>

\* WriteAt, line 178: node->Can_Write->V(), then return.
W_Unlock(t) ==
    /\ pc[t] = "w_V"
    /\ Can_Write' = SemV(Can_Write)
    /\ Goto(t, "idle")
    /\ UNCHANGED <<lectores, Can_Read>>
    /\ UNCHANGED <<fsVars, ccVars, schVars>>

NextRW ==
    \E t \in Threads :
        \/ R_Begin(t) \/ R_EnterP(t) \/ R_Inc(t) \/ R_Check(t)
        \/ R_LockWrite(t) \/ R_EnterV(t) \/ R_Read(t) \/ R_ExitP(t)
        \/ R_Dec(t) \/ R_CheckLast(t) \/ R_UnlockWrite(t) \/ R_ExitV(t)
        \/ W_Begin(t) \/ W_Lock(t) \/ W_Write(t) \/ W_Unlock(t)


\* Thread t is inside Internal_ReadAt called from ReadAt (line 139).
InRead(t) == pc[t] = "r_read"

\* Thread t is inside Internal_WriteAt, between Can_Write->P() and ->V().
InWrite(t) == pc[t] = "w_write"

(***************************************************************************)
(* File system: the disk, the free map, directories and headers            *)
(*                                                                         *)
(* Sizes are scaled down.  A directory table fills exactly one sector      *)
(* (DIRECTORY_FILE_SIZE is SectorSize), as does the free map.  Content of a *)
(* sector is a tagged record; reading a sector as a structure it does not  *)
(* hold (a header as a directory table, a table as a header) depends on    *)
(* the byte layout and is recorded as fault "garbage", which stops the     *)
(* run.  A never-written sector is zero: an empty header, an empty table.  *)
(* Path buffers are taken to be zero-filled, so every string copied with   *)
(* strncpy is terminated.  A null-pointer dereference is fault "nullptr",  *)
(* unbounded recursion is fault "overflow".                                *)
(***************************************************************************)

\* NUM_SECTORS, scaled down.
NumSectors == 10

\* NUM_DIR_ENTRIES, scaled down.
NumDirEntries == 3

\* NUM_DIRECT, scaled down.
NumDirect == 2

\* SECTOR_SIZE in bytes, scaled down.
SectorSize == 3

\* Live handles returned by Open, at most.
MaxHandles == 2

\* Depth of ~OpenFile -> Remove -> ~OpenFile nesting followed before the
\* run is declared to overflow the stack.
MaxDepth == 2

\* users is followed down to -MaxNegUsers.
MaxNegUsers == 1

\* File-system calls followed after the format.
MaxCalls == 7

FREE_MAP_SECTOR == 0

DIRECTORY_SECTOR == 1

FREE_MAP_FILE_SIZE == SectorSize

DIRECTORY_FILE_SIZE == SectorSize

Sectors == 0..(NumSectors - 1)

Slash == "/"

\* The character '\0'.
NUL == "0"

Max(A) == CHOOSE x \in A : \A y \in A : y <= x

Min(A) == CHOOSE x \in A : \A y \in A : x <= y

DivRoundUp(n, d) == (n + d - 1) \div d

\* ---- sector contents ----
ZeroC == [kind |-> "zero", numBytes |-> 0, dataSectors |-> <<>>, table |-> {}]

HdrC(nb, ds) == [kind |-> "hdr", numBytes |-> nb, dataSectors |-> ds, table |-> {}]

DirC(tbl) == [kind |-> "dir", numBytes |-> 0, dataSectors |-> <<>>, table |-> tbl]

MapC == [kind |-> "map", numBytes |-> 0, dataSectors |-> <<>>, table |-> {}]

SeqToSet(q) == {q[i] : i \in 1..Len(q)}

\* ---- open-file table (Filetable / Filenode) ----
NoNode == [present |-> FALSE, name |-> <<>>, users |-> 0, remove |-> FALSE]

\* Filetable::add_file(name, sector): a fresh node.
NewNode(name) == [present |-> TRUE, name |-> name, users |-> 0, remove |-> FALSE]

Fault(S, f) == [S EXCEPT !.fault = f]

\* ---- Bitmap ----
\* Bitmap::Find: the smallest clear bit, or -1.
BitmapFind(map) == IF Sectors \ map = {} THEN -1 ELSE Min(Sectors \ map)

RECURSIVE TakeFree(_, _)
\* n calls of Bitmap::Find: the sectors found, in order.
TakeFree(map, n) ==
    IF n = 0 THEN <<>>
    ELSE LET s == BitmapFind(map) IN <<s>> \o TakeFree(map \cup {s}, n - 1)

\* ---- FileHeader ----
\* FileHeader::FetchFrom(sector): the header a sector holds.
ReadHdr(S, s) ==
    LET c == S.disk[s] IN
    [ok |-> c.kind \in {"hdr", "zero"}, numBytes |-> c.numBytes,
     dataSectors |-> c.dataSectors]

\* FileHeader::Allocate(freeMap, size).
Allocate(map, size) ==
    LET n == DivRoundUp(size, SectorSize) IN
    IF n > NumDirect \/ Cardinality(Sectors \ map) < n
    THEN [ok |-> FALSE, map |-> map, dataSectors |-> <<>>]
    ELSE LET ds == TakeFree(map, n) IN
         [ok |-> TRUE, map |-> map \cup SeqToSet(ds), dataSectors |-> ds]

\* FileHeader::Extend(freeMap, additionalBytes).
Extend(h, map, add) ==
    LET nb == h.numBytes + add
        total == DivRoundUp(nb, SectorSize)
        n == total - Len(h.dataSectors)
    IN IF total > NumDirect \/ n < 0 \/ Cardinality(Sectors \ map) < n
       THEN [ok |-> FALSE, map |-> map, numBytes |-> h.numBytes,
             dataSectors |-> h.dataSectors]
       ELSE LET ds == TakeFree(map, n) IN
            [ok |-> TRUE, map |-> map \cup SeqToSet(ds), numBytes |-> nb,
             dataSectors |-> h.dataSectors \o ds]

\* FileHeader::Deallocate(freeMap): clear the bit of every data sector.
Deallocate(h, map) == map \ SeqToSet(h.dataSectors)

\* ---- Directory ----
\* Directory::Find(name, isDir): only entries of the asked kind match.
DirFind(tbl, name, isDir) ==
    LET m == {e \in tbl : e.name = name /\ e.isDir = isDir} IN
    IF m = {} THEN -1 ELSE (CHOOSE e \in m : TRUE).sector

\* Directory::Add(name, sector, isDir).
DirAdd(tbl, name, sector, isDir) ==
    IF (\E e \in tbl : e.name = name) \/ Cardinality(tbl) >= NumDirEntries
    THEN [ok |-> FALSE, table |-> tbl]
    ELSE [ok |-> TRUE,
          table |-> tbl \cup {[name |-> name, sector |-> sector, isDir |-> isDir]}]

\* Directory::Remove(name): the sector that was there, or 0.
DirRemove(tbl, name) ==
    LET m == {e \in tbl : e.name = name} IN
    IF m = {} THEN [sector |-> 0, table |-> tbl]
    ELSE [sector |-> (CHOOSE e \in m : TRUE).sector, table |-> tbl \ m]

\* Directory::FetchFrom(file) for the file whose header is at sector hs:
\* file->ReadAt(table, size, 0).
FetchDir(S, hs) ==
    LET h == ReadHdr(S, hs) IN
    IF ~h.ok THEN [ok |-> FALSE, table |-> {}]
    ELSE IF h.numBytes = 0 THEN [ok |-> TRUE, table |-> {}]
    ELSE IF h.numBytes < DIRECTORY_FILE_SIZE THEN [ok |-> FALSE, table |-> {}]
    ELSE LET c == S.disk[h.dataSectors[1]] IN
         [ok |-> c.kind \in {"dir", "zero"}, table |-> c.table]

\* Directory::WriteBack(file) for the file whose header is at sector hs:
\* file->WriteAt(table, size, 0).
WriteDir(S, hs, tbl) ==
    LET h == S.disk[hs] IN
    IF h.kind = "hdr" /\ h.numBytes >= DIRECTORY_FILE_SIZE
    THEN [S EXCEPT !.disk[h.dataSectors[1]] = DirC(tbl)]
    ELSE Fault(S, "garbage")

RECURSIVE Clean(_, _, _, _)
\* Directory::Clean(freeMap): free the header and data sectors of every
\* entry, descending into sub-directories.  r is [ok, map]; ok is FALSE once
\* a sector could not be read as what the entry says it is.
Clean(S, tbl, r, fuel) ==
    IF tbl = {} \/ ~r.ok THEN r
    ELSE LET e == CHOOSE x \in tbl : TRUE
             h == ReadHdr(S, e.sector)
             sub == FetchDir(S, e.sector)
             r1 == IF ~e.isDir THEN r
                   ELSE IF ~sub.ok \/ fuel = 0 THEN [ok |-> FALSE, map |-> r.map]
                   ELSE Clean(S, sub.table, r, fuel - 1)
             r2 == IF ~r1.ok \/ ~h.ok THEN [ok |-> FALSE, map |-> r1.map]
                   ELSE [ok |-> TRUE, map |-> Deallocate(h, r1.map) \ {e.sector}]
         IN Clean(S, tbl \ {e}, r2, fuel)

\* ---- path utilities ----
\* CheckRoot: a relative path is resolved against the thread's path.
CheckRoot(cwd, path) ==
    IF path[1] # Slash
    THEN cwd \o (IF cwd[Len(cwd)] # Slash THEN <<Slash>> ELSE <<>>) \o path
    ELSE path

\* getName: what follows the last '/' before the final character.
getName(name) ==
    LET n == Len(name)
        pos == IF name[n] = Slash THEN n - 1 ELSE n
        idx == {i \in 1..pos : name[i] = Slash}
    IN IF name[n] # Slash /\ name[1] # Slash THEN name
       ELSE IF idx = {} THEN name
       ELSE SubSeq(name, Max(idx) + 1, n)

\* getParent: the path cut after its last '/' before the final character.
getParent(path) ==
    LET n == Len(path)
        pos == IF path[n] = Slash THEN n - 1 ELSE n
        idx == {i \in 1..pos : path[i] = Slash}
    IN SubSeq(path, 1, Max(idx))

\* The C string that starts at offset p (from 1) of buf.
CStr(buf, p) ==
    LET ends == {j \in p..Len(buf) : buf[j] = NUL}
        stop == IF ends = {} THEN Len(buf) ELSE Min(ends) - 1
    IN IF p > Len(buf) THEN <<>> ELSE SubSeq(buf, p, stop)

(***************************************************************************)
(* File-system operations as functions of the state                        *)
(*   S = [disk, map, ft, fault]                                            *)
(* disk: sector -> content; map: the persisted free bitmap (the set bits); *)
(* ft: the open-file table, sector -> node.  Each operation returns the    *)
(* new state and its result.  cwd is currentThread->GetPath().             *)
(***************************************************************************)

RECURSIVE Destroy(_, _, _, _)
RECURSIVE OpenPathLoop(_, _, _, _, _, _, _, _)
RECURSIVE RemoveF(_, _, _, _)
RECURSIVE RemoveDirF(_, _, _, _)

NullDir(S, sector) == [st |-> S, found |-> FALSE, dir |-> {}, sector |-> sector]

\* OpenPath, lines 150-165: the loop over the characters of the path.
\* i: the index examined, p: the offset of the pointer p; both from 1.
OpenPathLoop(S, buf, i, p, dir, sector, cwd, depth) ==
    IF S.fault # "none" THEN NullDir(S, sector)
    ELSE IF i > Len(buf)
    THEN [st |-> S, found |-> TRUE, dir |-> dir, sector |-> sector]
    ELSE IF buf[i] # Slash
    THEN OpenPathLoop(S, buf, i + 1, p, dir, sector, cwd, depth)
    ELSE LET b2 == [buf EXCEPT ![i] = NUL]
             sec == DirFind(dir, CStr(b2, p), TRUE)
         IN IF sec = -1 THEN NullDir(S, sec)
            ELSE LET f == FetchDir(S, sec)
                     S1 == IF f.ok THEN Destroy(S, sec, cwd, depth)
                           ELSE Fault(S, "garbage")
                 IN OpenPathLoop(S1, b2, i + 1, p + i, f.table, sec, cwd, depth)

\* FileSystem::OpenPath(path, &sector): the directory that holds the leaf
\* (found = FALSE is the null pointer) and its header sector.
OpenPath(S, cwd, upath, depth) ==
    LET path == CheckRoot(cwd, upath)
        root == FetchDir(S, DIRECTORY_SECTOR)
    IN IF ~root.ok THEN NullDir(Fault(S, "garbage"), DIRECTORY_SECTOR)
       ELSE OpenPathLoop(S, Tail(path), 1, 1, root.table, DIRECTORY_SECTOR,
                         cwd, depth)

\* OpenFile::~OpenFile for a handle on sector s.
Destroy(S, s, cwd, depth) ==
    LET n == S.ft[s] IN
    IF S.fault # "none" \/ ~n.present THEN S
    ELSE LET S1 == [S EXCEPT !.ft[s].users = @ - 1] IN
         IF n.remove /\ n.users - 1 <= 0
         THEN IF depth >= MaxDepth THEN Fault(S1, "overflow")
              ELSE RemoveF(S1, cwd, n.name, depth + 1).st
         ELSE S1

\* directory->WriteBack through directoryFile for the root, and through a
\* short-lived handle (new OpenFile, WriteBack, delete) for any other.
FlushDir(S, dirSector, tbl, cwd, depth) ==
    IF S.fault # "none" THEN S
    ELSE IF dirSector = DIRECTORY_SECTOR THEN WriteDir(S, DIRECTORY_SECTOR, tbl)
    ELSE Destroy(WriteDir(S, dirSector, tbl), dirSector, cwd, depth)

\* RemoveDir, lines 821-825: the free map is written back and true returned.
RemoveDirEnd(S1, map1) ==
    IF S1.fault # "none" THEN [st |-> S1, ret |-> 0]
    ELSE [st |-> [S1 EXCEPT !.map = map1], ret |-> 1]

\* RemoveDir, lines 793-820, with what OpenPath returned.
RemoveDirIn(op, name, cwd, depth) ==
    LET S0 == op.st
        map0 == S0.map
        rm == DirRemove(op.dir, name)
        folder == FetchDir(S0, rm.sector)
        cl == Clean(S0, folder.table, [ok |-> TRUE, map |-> map0], NumSectors)
        h == ReadHdr(S0, rm.sector)
        map1 == IF rm.sector = 0 THEN map0
                ELSE Deallocate(h, cl.map) \ {rm.sector}
    IN IF S0.fault # "none" THEN [st |-> S0, ret |-> 0]
       ELSE IF ~op.found THEN [st |-> Fault(S0, "nullptr"), ret |-> 0]
       ELSE IF rm.sector # 0 /\ (~folder.ok \/ ~cl.ok \/ ~h.ok)
       THEN [st |-> Fault(S0, "garbage"), ret |-> 0]
       ELSE RemoveDirEnd(FlushDir(S0, op.sector, rm.table, cwd, depth), map1)

\* FileSystem::RemoveDir(path).
RemoveDirF(S, cwd, upath, depth) ==
    IF CheckRoot(cwd, upath) = <<Slash>> THEN [st |-> S, ret |-> 0]
    ELSE RemoveDirIn(OpenPath(S, cwd, CheckRoot(cwd, upath), depth),
                     getName(CheckRoot(cwd, upath)), cwd, depth)

\* RemoveBusy with the test at line 405 always false: Remove never defers.
RemoveBusy_Never(n) == FALSE

\* Remove, line 405: somebody is using the file.
RemoveBusy(n) == n.present /\ n.users # 0

\* MarkForRemoval as it would be if the deferred branch also took the name
\* out of the parent directory and persisted the directory.
MarkForRemoval_Unlink(S0, op, name, sector) ==
    [WriteDir(S0, op.sector, DirRemove(op.dir, name).table)
        EXCEPT !.ft[sector].remove = TRUE]

\* Remove, line 406: the deferred branch only marks the node.
MarkForRemoval(S0, op, name, sector) == [S0 EXCEPT !.ft[sector].remove = TRUE]

\* Remove, lines 432-439: the node leaves the table and true is returned.
RemoveFileEnd(S2, sector) ==
    IF S2.fault # "none" THEN [st |-> S2, ret |-> 0]
    ELSE [st |-> [S2 EXCEPT !.ft[sector] = NoNode], ret |-> 1]

\* Remove, lines 403-439, for the file found at `sector`.
RemoveFile(S0, op, name, sector, cwd, depth) ==
    IF RemoveBusy(S0.ft[sector])
    THEN [st |-> MarkForRemoval(S0, op, name, sector), ret |-> 1]
    ELSE IF ~ReadHdr(S0, sector).ok THEN [st |-> Fault(S0, "garbage"), ret |-> 0]
    ELSE RemoveFileEnd(
             FlushDir([S0 EXCEPT !.map = Deallocate(ReadHdr(S0, sector), S0.map)
                                              \ {sector}],
                      op.sector, DirRemove(op.dir, name).table, cwd, depth),
             sector)

\* Remove, lines 392-402, with what OpenPath returned.
RemoveIn(op, path, cwd, depth) ==
    LET S0 == op.st
        name == getName(path)
        sector == DirFind(op.dir, name, FALSE)
    IN IF S0.fault # "none" THEN [st |-> S0, ret |-> 0]
       ELSE IF ~op.found THEN [st |-> Fault(S0, "nullptr"), ret |-> 0]
       ELSE IF sector < 0
       THEN IF DirFind(op.dir, name, TRUE) < 0 THEN [st |-> S0, ret |-> 0]
            ELSE RemoveDirF(S0, cwd, path, depth)
       ELSE RemoveFile(S0, op, name, sector, cwd, depth)

\* FileSystem::Remove(path).
RemoveF(S, cwd, upath, depth) ==
    RemoveIn(OpenPath(S, cwd, CheckRoot(cwd, upath), depth),
             CheckRoot(cwd, upath), cwd, depth)

\* Create and MakeDir: the result once the parent directory is written back.
WrittenBack(S2) == [st |-> S2, ret |-> IF S2.fault = "none" THEN 1 ELSE 0]

\* Create without the test of lines 294-296 and with an Add that does not
\* look for the name: an entry is added whatever the directory holds.
CreateIn_Duplicate(op, name, initialSize, cwd, depth) ==
    LET S0 == op.st
        sector == BitmapFind(S0.map)
        al == Allocate(S0.map \cup {sector}, initialSize)
        S1 == [S0 EXCEPT !.disk[sector] = HdrC(initialSize, al.dataSectors),
                         !.map = al.map]
    IN IF S0.fault # "none" \/ ~op.found THEN [st |-> S0, ret |-> 0]
       ELSE IF sector = -1 \/ Cardinality(op.dir) >= NumDirEntries \/ ~al.ok
       THEN [st |-> S0, ret |-> 0]
       ELSE WrittenBack(FlushDir(S1, op.sector,
                op.dir \cup {[name |-> name, sector |-> sector,
                              isDir |-> FALSE]},
                cwd, depth))

\* Create, lines 290-340, with what OpenPath returned.
CreateIn(op, name, initialSize, cwd, depth) ==
    LET S0 == op.st
        sector == BitmapFind(S0.map)
        add == DirAdd(op.dir, name, sector, FALSE)
        al == Allocate(S0.map \cup {sector}, initialSize)
        S1 == [S0 EXCEPT !.disk[sector] = HdrC(initialSize, al.dataSectors),
                         !.map = al.map]
    IN IF S0.fault # "none" THEN [st |-> S0, ret |-> 0]
       ELSE IF ~op.found \/ DirFind(op.dir, name, TRUE) # -1
                         \/ DirFind(op.dir, name, FALSE) # -1
       THEN [st |-> S0, ret |-> 0]
       ELSE IF sector = -1 \/ ~add.ok \/ ~al.ok THEN [st |-> S0, ret |-> 0]
       ELSE WrittenBack(FlushDir(S1, op.sector, add.table, cwd, depth))

\* FileSystem::Create(path, initialSize).
CreateF(S, cwd, upath, initialSize, depth) ==
    CreateIn(OpenPath(S, cwd, CheckRoot(cwd, upath), depth),
             getName(CheckRoot(cwd, upath)), initialSize, cwd, depth)

\* OpenAllowed with the test at line 362 dropped: Open ignores the remove
\* flag.
OpenAllowed_Always(n) == TRUE

\* Open, line 362: a node marked for removal is not opened again.
OpenAllowed(n) == n.remove = FALSE

\* Open, lines 357-368, with what OpenPath returned.
OpenIn(op, name) ==
    LET S0 == op.st
        sector == DirFind(op.dir, name, FALSE)
        node == IF S0.ft[sector].present THEN S0.ft[sector] ELSE NewNode(name)
    IN IF S0.fault # "none" THEN [st |-> S0, ret |-> -1]
       ELSE IF ~op.found THEN [st |-> Fault(S0, "nullptr"), ret |-> -1]
       ELSE IF sector > 1
       THEN IF OpenAllowed(node)
            THEN [st |-> [S0 EXCEPT !.ft[sector] =
                                        [node EXCEPT !.users = @ + 1]],
                  ret |-> sector]
            ELSE [st |-> [S0 EXCEPT !.ft[sector] = node], ret |-> -1]
       ELSE [st |-> S0, ret |-> -1]

\* FileSystem::Open(path): the header sector of the handle, -1 for null.
OpenF(S, cwd, upath, depth) ==
    OpenIn(OpenPath(S, cwd, CheckRoot(cwd, upath), depth),
           getName(CheckRoot(cwd, upath)))

\* Expand without header->WriteBack(sector) at line 694: of a successful
\* Extend only the free map is persisted.
ExpandF_MapOnly(S, sector, size) ==
    LET h == ReadHdr(S, sector)
        ex == Extend(h, S.map, size)
    IN IF ~h.ok THEN [st |-> Fault(S, "garbage"), ret |-> 0]
       ELSE IF ex.ok THEN [st |-> [S EXCEPT !.map = ex.map], ret |-> 1]
       ELSE [st |-> S, ret |-> 0]

\* FileSystem::Expand(sector, size).
ExpandF(S, sector, size) ==
    LET h == ReadHdr(S, sector)
        ex == Extend(h, S.map, size)
    IN IF ~h.ok THEN [st |-> Fault(S, "garbage"), ret |-> 0]
       ELSE IF ex.ok
       THEN [st |-> [S EXCEPT !.map = ex.map,
                              !.disk[sector] = HdrC(ex.numBytes, ex.dataSectors)],
             ret |-> 1]
       ELSE [st |-> S, ret |-> 0]

\* MakeDir, lines 714-773, with what OpenPath returned for the parent.
MakeDirIn(op, name, cwd, depth) ==
    LET S0 == op.st
        sector == BitmapFind(S0.map)
        add == DirAdd(op.dir, name, sector, TRUE)
        al == Allocate(S0.map \cup {sector}, DIRECTORY_FILE_SIZE)
        \* ClearSector(sector); header->WriteBack(sector); the data sectors
        \* of the new directory are not written.
        S1 == [S0 EXCEPT !.disk[sector] = HdrC(DIRECTORY_FILE_SIZE, al.dataSectors),
                         !.map = al.map]
    IN IF S0.fault # "none" THEN [st |-> S0, ret |-> 0]
       ELSE IF ~op.found \/ DirFind(op.dir, name, TRUE) # -1
                         \/ DirFind(op.dir, name, FALSE) # -1
       THEN [st |-> S0, ret |-> 0]
       ELSE IF sector = -1 \/ ~add.ok \/ ~al.ok THEN [st |-> S0, ret |-> 0]
       ELSE WrittenBack(FlushDir(S1, op.sector, add.table, cwd, depth))

\* FileSystem::MakeDir(path).
MakeDirF(S, cwd, upath, depth) ==
    MakeDirIn(OpenPath(S, cwd, getParent(CheckRoot(cwd, upath)), depth),
              getName(CheckRoot(cwd, upath)), cwd, depth)

\* FileSystem::FileSystem(format = true): the state after formatting.
Format ==
    LET m0 == {FREE_MAP_SECTOR, DIRECTORY_SECTOR}
        mh == Allocate(m0, FREE_MAP_FILE_SIZE)
        dh == Allocate(mh.map, DIRECTORY_FILE_SIZE)
        d0 == [s \in Sectors |-> ZeroC]
        d1 == [d0 EXCEPT ![FREE_MAP_SECTOR] = HdrC(FREE_MAP_FILE_SIZE, mh.dataSectors),
                         ![DIRECTORY_SECTOR] = HdrC(DIRECTORY_FILE_SIZE, dh.dataSectors),
                         ![mh.dataSectors[1]] = MapC,
                         ![dh.dataSectors[1]] = DirC({})]
    IN [disk |-> d1, map |-> dh.map, ft |-> [s \in Sectors |-> NoNode],
        fault |-> "none"]

(***************************************************************************)
(* What the persisted file system holds                                    *)
(***************************************************************************)

RECURSIVE ReachDirs(_, _, _)
ReachDirs(S, frontier, seen) ==
    IF frontier = {} THEN seen
    ELSE LET hs == CHOOSE x \in frontier : TRUE
             f == FetchDir(S, hs)
             subs == IF f.ok THEN {e.sector : e \in {x \in f.table : x.isDir}}
                     ELSE {}
         IN ReachDirs(S, (frontier \ {hs}) \cup (subs \ (seen \cup {hs})),
                      seen \cup {hs})

\* Header sectors of the directories reachable from the root.
LiveDirs(S) == ReachDirs(S, {DIRECTORY_SECTOR}, {})

\* The in-use entries of the reachable directories, each with the header
\* sector of the directory that holds it.
LiveEntries(S) ==
    UNION { {[dir |-> hs, e |-> x] : x \in FetchDir(S, hs).table} :
            hs \in LiveDirs(S) }

\* The sector the parent directory OpenPath returned holds for the leaf
\* name, -1 if OpenPath returned none or the name is not there.
FoundIn(op, name, isDir) ==
    IF op.st.fault = "none" /\ op.found THEN DirFind(op.dir, name, isDir)
    ELSE -1

\* The header sector of the file a call's path names, -1 if it names none.
FileSector(S, c) == FoundIn(OpenPath(S, c[1], c[2], 0),
                            getName(CheckRoot(c[1], c[2])), FALSE)

\* The call's path names an entry, file or directory, of its parent.
NamesEntry(S, c) ==
    LET op == OpenPath(S, c[1], c[2], 0) IN
    /\ op.st.fault = "none" /\ op.found
    /\ \E x \in op.dir : x.name = getName(CheckRoot(c[1], c[2]))

\* The working path is the root or names a directory.
IsDir(S, cwd) ==
    \/ cwd = <<Slash>>
    \/ FoundIn(OpenPath(S, <<Slash>>, cwd, 0), getName(cwd), TRUE) # -1

(***************************************************************************)
(* The file system, one call at a time                                     *)
(***************************************************************************)

\* Paths handed to the calls.
AbsPaths ==
    { <<"/", "f">>, <<"/", "d">>, <<"/", "e">>,
      <<"/", "d", "/", "f">>, <<"/", "e", "/", "f">> }

\* Working paths of the calling thread (currentThread->GetPath()).
Cwds == { <<"/">>, <<"/", "d">> }

\* The calls made: <<working path, path argument>>; every absolute path by
\* a thread working in the root, and a relative one by a thread in /d.
Calls == { <<(<<"/">>), q>> : q \in AbsPaths } \cup { <<(<<"/", "d">>), (<<"f">>)>> }

\* initialSize of Create.
CreateSizes == {0}

\* size of Expand, as WriteAt computes it (at least 2).
ExpandSizes == {SectorSize}

St == [disk |-> disk, map |-> freeMap, ft |-> filetable, fault |-> fault]

\* The calls and the working paths of threads whose working path names a
\* directory of the current file system.
LiveCalls == {c \in Calls : IsDir(St, c[1])}

LiveCwds == {cwd \in Cwds : IsDir(St, cwd)}

Commit(S) ==
    /\ calls' = calls + 1
    /\ \A s \in Sectors : S.ft[s].users >= -MaxNegUsers
    /\ disk' = S.disk
    /\ freeMap' = S.map
    /\ filetable' = S.ft
    /\ fault' = S.fault

RECURSIVE SumOver(_, _)
SumOver(f, D) ==
    IF D = {} THEN 0
    ELSE LET x == CHOOSE y \in D : TRUE IN f[x] + SumOver(f, D \ {x})

LiveHandles == SumOver(handles, Sectors)

\* The locals of a thread that is in no file-system call: at is the disk
\* access it is about to make, ret what its last call returned (-1: none).
IdleLocal ==
    [at |-> "idle", op |-> "none", name |-> <<>>, dir |-> {}, map |-> {},
     sector |-> -1, numBytes |-> 0, dataSectors |-> <<>>, ret |-> -1]

\* Handles a thread may hold.
Slots == 1..MaxHandles

\* A slot that holds no OpenFile; ret and into are what the last Read or
\* Write through the slot returned.
ClosedFile ==
    [open |-> FALSE, sector |-> -1, numBytes |-> 0, dataSectors |-> <<>>,
     seekPosition |-> 0, ret |-> -1, into |-> <<>>]

\* Threads the scheduler handles.
NumSchedThreads == 3

SchedThreads == 1..NumSchedThreads

\* The null Thread pointer.
NULL == 0

\* readyList[0..2]: low, mid, high.
Tiers == 0..2

\* A Thread object that does not exist yet.
NoThread == [status |-> "NONE", priority |-> 0, arrived |-> 0]

\* The node as add_file creates it, and the disk as FileSystem(true)
\* formats it, with no handle open.
Init ==
    /\ pc = [t \in Threads |-> "idle"]
    /\ lectores = 0
    /\ Can_Read = 1
    /\ Can_Write = 1
    /\ disk = Format.disk
    /\ freeMap = Format.map
    /\ filetable = Format.ft
    /\ fault = "none"
    /\ handles = [s \in Sectors |-> 0]
    /\ calls = 0
    /\ local = [t \in Threads |-> IdleLocal]
    /\ files = [k \in Slots |-> ClosedFile]
    /\ readyList = [i \in Tiers |-> <<>>]
    /\ thread = [t \in SchedThreads |-> NoThread]
    /\ nextThread = NULL
    /\ currentThread = NULL
    /\ arrivals = 0

CreateOp(cwd, path, size) ==
    /\ fault = "none"
    /\ calls < MaxCalls
    /\ Commit(CreateF(St, cwd, path, size, 0).st)
    /\ UNCHANGED handles
    /\ UNCHANGED <<rwVars, schVars, ccVars>>

\* SC_OPEN: the handle Open returned, if any, is added to the thread's files.
OpenDone(r) ==
    /\ r.ret = -1 \/ LiveHandles < MaxHandles
    /\ Commit(r.st)
    /\ handles' = IF r.ret = -1 THEN handles
                  ELSE [handles EXCEPT ![r.ret] = @ + 1]

OpenOp(cwd, path) ==
    /\ fault = "none"
    /\ calls < MaxCalls
    /\ OpenDone(OpenF(St, cwd, path, 0))
    /\ UNCHANGED <<rwVars, schVars, ccVars>>

\* delete of a handle Open returned (SC_CLOSE), by a thread with path cwd.
CloseOp(cwd, s) ==
    /\ fault = "none"
    /\ calls < MaxCalls
    /\ handles[s] > 0
    /\ handles' = [handles EXCEPT ![s] = @ - 1]
    /\ Commit(Destroy(St, s, cwd, 0))
    /\ UNCHANGED <<rwVars, schVars, ccVars>>

RemoveOp(cwd, path) ==
    /\ fault = "none"
    /\ calls < MaxCalls
    /\ Commit(RemoveF(St, cwd, path, 0).st)
    /\ UNCHANGED handles
    /\ UNCHANGED <<rwVars, schVars, ccVars>>

MakeDirOp(cwd, path) ==
    /\ fault = "none"
    /\ calls < MaxCalls
    /\ Commit(MakeDirF(St, cwd, path, 0).st)
    /\ UNCHANGED handles
    /\ UNCHANGED <<rwVars, schVars, ccVars>>

\* RemoveDir is handed the path of a directory (or of nothing), as Remove
\* does at line 401.
RemoveDirOp(cwd, path) ==
    /\ fault = "none"
    /\ calls < MaxCalls
    /\ FileSector(St, <<cwd, path>>) = -1
    /\ Commit(RemoveDirF(St, cwd, path, 0).st)
    /\ UNCHANGED handles
    /\ UNCHANGED <<rwVars, schVars, ccVars>>

\* Expand(sector, size) as WriteAt calls it through a live handle on s.
ExpandOp(s, size) ==
    /\ fault = "none"
    /\ calls < MaxCalls
    /\ handles[s] > 0
    /\ Commit(ExpandF(St, s, size).st)
    /\ UNCHANGED handles
    /\ UNCHANGED <<rwVars, schVars, ccVars>>

NextFS ==
    \/ \E c \in LiveCalls, size \in CreateSizes : CreateOp(c[1], c[2], size)
    \/ \E c \in LiveCalls : OpenOp(c[1], c[2])
    \/ \E cwd \in LiveCwds, s \in Sectors : CloseOp(cwd, s)
    \/ \E c \in LiveCalls : RemoveOp(c[1], c[2])
    \/ \E c \in LiveCalls : MakeDirOp(c[1], c[2])
    \/ \E c \in LiveCalls : RemoveDirOp(c[1], c[2])
    \/ \E s \in Sectors, size \in ExpandSizes : ExpandOp(s, size)

(***************************************************************************)
(* Specifications                                                          *)
(***************************************************************************)

SpecRW == Init /\ [][NextRW]_vars

SpecFS == Init /\ [][NextFS]_vars

(***************************************************************************)
(* Claims: reader / writer protocol (SpecRW)                               *)
(***************************************************************************)

\* C1: writers are exclusive: no thread is inside the write section while
\* another thread is inside the write section or inside the read section
\* of the same node.
C1_WriterExclusive ==
    \A t \in Threads, u \in Threads :
        (t # u /\ InWrite(t)) => ~InWrite(u) /\ ~InRead(u)

\* C1 witness: a writer is inside while a reader and another writer wait
\* for Can_Write.
C1_Witness ==
    \E t \in Threads, u \in Threads, v \in Threads :
        InWrite(t) /\ pc[u] = "r_Pw" /\ pc[v] = "w_P"

\* C2 as stated: whenever lectores > 0 the Can_Write semaphore is held
\* (its value is 0), at every statement boundary of ReadAt.
C2_ReadersHoldCanWrite == lectores > 0 => Can_Write = 0

\* The first reader has counted itself in (line 131) and has not yet
\* completed Can_Write->P() (line 134).
FirstReaderEntering ==
    lectores = 1 /\ \E t \in Threads : pc[t] \in {"r_chk", "r_Pw"}

\* C2 amended: whenever lectores > 0, Can_Write is held and no writer is
\* inside, except while the first reader is between its lectores++ and
\* the completion of its Can_Write->P().
C2_ReadersHoldCanWriteOnceEntered ==
    (lectores > 0 /\ ~FirstReaderEntering) =>
        Can_Write = 0 /\ \A t \in Threads : ~InWrite(t)

\* C2 witness: two readers are counted in, one of them inside the read
\* section, and a writer waits.
C2_Witness ==
    /\ lectores = 2
    /\ \E t \in Threads, u \in Threads : InRead(t) /\ pc[u] = "w_P"

\* C3: a reader that arrives while readers are inside is never made to
\* wait on Can_Write: a thread about to execute Can_Write->P() in ReadAt
\* finds no reader inside the read section.
C3_ReadersShare ==
    \A t \in Threads : pc[t] = "r_Pw" => \A u \in Threads : ~InRead(u)

\* C3 witness: every thread is inside the read section at once.
C3_Witness == \A t \in Threads : InRead(t)

(***************************************************************************)
(* Claims: file system (SpecFS)                                            *)
(***************************************************************************)

\* What Remove(path) finds for a call: the state after OpenPath resolved the
\* parent, the parent's table and header sector, and the sector of the file
\* the leaf names in it (-1 if none).
RemoveFinds(S, c) ==
    LET op == OpenPath(S, c[1], c[2], 0)
        ok == op.st.fault = "none" /\ op.found
    IN [ok |-> ok, st |-> op.st, dir |-> op.dir, dsec |-> op.sector,
        sector |-> IF ok THEN DirFind(op.dir, getName(CheckRoot(c[1], c[2])), FALSE)
                   ELSE -1]

\* Remove and the Open that follows it.
RemoveThenOpen(S, c) == OpenF(RemoveF(S, c[1], c[2], 0).st, c[1], c[2], 0)

\* C4 as stated: when the path names a file on which a handle is live,
\* Remove returns true, sets the node's remove flag and frees nothing (the
\* disk and the free map are unchanged), and the Open that follows returns
\* null; and while a file's node has the flag set, Open of its path
\* returns null.
C4_DeferredRemove ==
    fault = "none" =>
    \A c \in LiveCalls :
        LET s == FileSector(St, c) IN
        /\ (s > 1 /\ handles[s] > 0) =>
              LET r == RemoveF(St, c[1], c[2], 0) IN
              /\ r.ret = 1 /\ r.st.fault = "none"
              /\ r.st.ft[s].present /\ r.st.ft[s].remove
              /\ r.st.map = freeMap /\ r.st.disk = disk
              /\ RemoveThenOpen(St, c).ret = -1
        /\ (s > 1 /\ filetable[s].present /\ filetable[s].remove) =>
              OpenF(St, c[1], c[2], 0).ret = -1

\* C4 where the node counts the handle (users > 0 when Remove looks the
\* node up): Remove returns true, only sets the flag, and Open returns
\* null afterwards.
C4_DeferredWhenCounted ==
    fault = "none" =>
    \A c \in LiveCalls :
        LET f == RemoveFinds(St, c)
            s == f.sector
        IN (s > 1 /\ handles[s] > 0 /\ f.st.ft[s].present /\ f.st.ft[s].users > 0) =>
              LET r == RemoveF(St, c[1], c[2], 0) IN
              /\ r.ret = 1
              /\ r.st = [f.st EXCEPT !.ft[s].remove = TRUE]
              /\ RemoveThenOpen(St, c).ret = -1

\* C5 as stated: right after a Remove issued while a handle is live
\* returns true, the persisted parent directory has no in-use entry with
\* the leaf name.
C5_DeferredRemoveUnlinks ==
    fault = "none" =>
    \A c \in LiveCalls :
        LET s == FileSector(St, c)
            r == RemoveF(St, c[1], c[2], 0)
        IN (s > 1 /\ handles[s] > 0 /\ r.ret = 1 /\ r.st.fault = "none") =>
              ~NamesEntry(r.st, c)

\* C5 amended: a deferred Remove (the file's node has users # 0) returns
\* true and leaves the disk as it was: the parent directory still holds the
\* leaf's in-use entry, so a lookup of the name in the parent finds the
\* file's header sector; only the node's remove flag changes.
C5_DeferredRemoveKeepsName ==
    fault = "none" =>
    \A c \in LiveCalls :
        LET f == RemoveFinds(St, c)
            s == f.sector
            r == RemoveF(St, c[1], c[2], 0)
        IN (s > 1 /\ f.st.ft[s].present /\ f.st.ft[s].users # 0) =>
              /\ r.ret = 1
              /\ r.st.disk = f.st.disk /\ r.st.map = f.st.map
              /\ FetchDir(r.st, f.dsec).table = f.dir
              /\ DirFind(FetchDir(r.st, f.dsec).table,
                         getName(CheckRoot(c[1], c[2])), FALSE) = s

\* C5 witness: a file in a subdirectory was removed while open: its node is
\* marked, the handle is live, and its path still names its header sector.
C5_Witness ==
    /\ fault = "none"
    /\ \E s \in Sectors :
        /\ filetable[s].present /\ filetable[s].remove /\ handles[s] > 0
        /\ FileSector(St, <<(<<"/">>), (<<"/", "d", "/", "f">>)>>) = s

\* The live entries that name sector s as a file.
FileEntriesOf(S, s) == {x \in LiveEntries(S) : x.e.sector = s /\ ~x.e.isDir}

\* The sectors of the file whose header is at s: the header and its data.
SectorsOf(S, s) == {s} \cup SeqToSet(ReadHdr(S, s).dataSectors)

\* C6 as stated: when a file's removal was deferred (its node is marked, one
\* handle is left and the node counts it), closing that handle, whatever the
\* closing thread's working path, leaves the file's header sector and data
\* sectors clear in the free map and no entry for it in any directory.
C6_LastCloseReclaims ==
    fault = "none" =>
    \A s \in Sectors, cwd \in LiveCwds :
        ( /\ s > 1 /\ handles[s] = 1
          /\ filetable[s].present /\ filetable[s].remove
          /\ filetable[s].users = 1
          /\ FileEntriesOf(St, s) # {} ) =>
            LET S1 == Destroy(St, s, cwd, 0) IN
            /\ S1.fault = "none"
            /\ SectorsOf(St, s) \cap S1.map = {}
            /\ FileEntriesOf(S1, s) = {}

\* C7 as stated: a node's users field equals the number of live handles
\* Open returned for its sector, and is never negative.
C7_UsersCountHandles ==
    \A s \in Sectors :
        filetable[s].present =>
            filetable[s].users = handles[s] /\ filetable[s].users >= 0

\* C8: once a node's remove flag is true its users count is not raised and
\* no handle is returned for its sector: across every step that leaves the
\* flag set, users and the number of live handles do not grow.
C8_NoOpenWhileMarked ==
    [][\A s \in Sectors :
          ( /\ filetable[s].present /\ filetable[s].remove
            /\ filetable'[s].present /\ filetable'[s].remove ) =>
              /\ filetable'[s].users <= filetable[s].users
              /\ handles'[s] <= handles[s]]_vars

\* C8 witness: a file's node is marked for removal with a handle live, and
\* Open of the file's path is refused.
C8_Witness ==
    /\ fault = "none"
    /\ \E c \in LiveCalls :
        LET f == RemoveFinds(St, c) IN
        /\ f.sector > 1
        /\ f.st.ft[f.sector].present /\ f.st.ft[f.sector].remove
        /\ f.st.ft[f.sector].users > 0
        /\ OpenF(St, c[1], c[2], 0).ret = -1

\* Remove(path) twice in a row: the two results and the final fault.
RemoveTwice(S, c) ==
    LET r1 == RemoveF(S, c[1], c[2], 0)
        r2 == RemoveF(r1.st, c[1], c[2], 0)
    IN [first |-> r1.ret, second |-> r2.ret, fault |-> r2.st.fault]

LiveHeaders(S) ==
    {FREE_MAP_SECTOR, DIRECTORY_SECTOR} \cup {x.e.sector : x \in LiveEntries(S)}

\* The number of owners of sector s: the live entries whose header sector
\* it is, and the dataSectors slots of live headers that hold it.
Owners(S, s) ==
    Cardinality({x \in LiveEntries(S) : x.e.sector = s})
    + Cardinality({hi \in LiveHeaders(S) \X (1..NumDirect) :
                      LET ds == ReadHdr(S, hi[1]).dataSectors IN
                      hi[2] <= Len(ds) /\ ds[hi[2]] = s})

\* C10 as stated: the persisted free map has bit s set iff s is sector 0
\* or 1 or s has exactly one owner; no sector has two owners.
C10_BitmapOwners ==
    fault = "none" =>
    \A s \in Sectors :
        /\ s \in freeMap <=>
              (s \in {FREE_MAP_SECTOR, DIRECTORY_SECTOR} \/ Owners(St, s) = 1)
        /\ Owners(St, s) <= 1

\* The header sector of the directory a call's path names, -1 if it names
\* none.
DirSector(S, c) == FoundIn(OpenPath(S, c[1], c[2], 0),
                           getName(CheckRoot(c[1], c[2])), TRUE)

\* C11 as stated: after MakeDir(path) returns true, reading the new
\* directory from its data sectors yields no in-use entry (where the data
\* sector holds a directory table or zeros, so that what is read does not
\* depend on the byte layout).
C11_MakeDirEmpty ==
    fault = "none" =>
    \A c \in LiveCalls :
        LET r == MakeDirF(St, c[1], c[2], 0) IN
        (r.ret = 1 /\ r.st.fault = "none") =>
            /\ DirSector(r.st, c) > 1
            /\ FetchDir(r.st, DirSector(r.st, c)).ok =>
                  FetchDir(r.st, DirSector(r.st, c)).table = {}

(***************************************************************************)
(* Path resolution at every depth                                          *)
(***************************************************************************)

\* The absolute path whose components are comps.
RECURSIVE PathOf(_)
PathOf(comps) ==
    IF comps = <<>> THEN <<>>
    ELSE <<Slash>> \o Head(comps) \o PathOf(Tail(comps))

\* Paths by their components, with 0 to 3 intermediate directories.
DeepPaths ==
    { << <<"a">> >>, << <<"a">>, <<"b">> >>, << <<"a">>, <<"f">> >>,
      << <<"a">>, <<"b">>, <<"c">> >>, << <<"a">>, <<"b">>, <<"f">> >>,
      << <<"a">>, <<"b">>, <<"c">>, <<"f">> >> }

RootCwd == <<Slash>>

\* The calls of a thread that works in the root on the paths above.
NextPath ==
    \/ \E q \in DeepPaths, size \in CreateSizes :
           CreateOp(RootCwd, PathOf(q), size)
    \/ \E q \in DeepPaths : MakeDirOp(RootCwd, PathOf(q))
    \/ \E q \in DeepPaths : RemoveOp(RootCwd, PathOf(q))
    \/ \E q \in DeepPaths : RemoveDirOp(RootCwd, PathOf(q))

SpecPath == Init /\ [][NextPath]_vars

\* The directory reached from dir (header sector) by looking up, in turn and
\* among directories only, the components k .. Len(comps) - 1.
RECURSIVE WalkFrom(_, _, _, _, _)
WalkFrom(S, comps, k, dir, sector) ==
    IF k >= Len(comps) THEN [found |-> TRUE, dir |-> dir, sector |-> sector]
    ELSE LET sec == DirFind(dir, comps[k], TRUE) IN
         IF sec = -1 THEN [found |-> FALSE, dir |-> {}, sector |-> -1]
         ELSE WalkFrom(S, comps, k + 1, FetchDir(S, sec).table, sec)

Walk(S, comps) ==
    WalkFrom(S, comps, 1, FetchDir(S, DIRECTORY_SECTOR).table,
             DIRECTORY_SECTOR)

\* C12 as stated: for a path with any number of intermediate components,
\* OpenPath returns null exactly when some intermediate component is missing
\* or not a directory, and otherwise the directory of the last intermediate
\* component together with its header sector.
C12_OpenPathEveryDepth ==
    fault = "none" =>
    \A q \in DeepPaths :
        LET r == OpenPath(St, RootCwd, PathOf(q), 0)
            e == Walk(St, q)
        IN r.st.fault = "none" =>
               /\ r.found = e.found
               /\ e.found => (r.dir = e.dir /\ r.sector = e.sector)

\* The same for paths with at most two intermediate components.
C12_OpenPathUpToTwo ==
    fault = "none" =>
    \A q \in {x \in DeepPaths : Len(x) <= 3} :
        LET r == OpenPath(St, RootCwd, PathOf(q), 0)
            e == Walk(St, q)
        IN r.st.fault = "none" =>
               /\ r.found = e.found
               /\ e.found => (r.dir = e.dir /\ r.sector = e.sector)

(***************************************************************************)
(* Concurrent file-system calls.  Create and Expand take no lock of the    *)
(* file system; a thread may be suspended at every disk access (SynchDisk  *)
(* waits for the disk interrupt), so each access is one step and the       *)
(* in-memory work between two accesses belongs to the step before it.      *)
(***************************************************************************)

\* Threads that call into the file system at the same time.
NumCallers == 2

Callers == 1..NumCallers

\* Concurrent calls followed after the format.
MaxConcCalls == 4

\* Leaf names created in the root directory.
ConcNames == { <<"f">>, <<"g">> }

Returned(t, op, name, ret) ==
    local' = [local EXCEPT ![t] =
                 [IdleLocal EXCEPT !.op = op, !.name = name, !.ret = ret]]

\* Create, lines 285-296: OpenPath fetches the root directory; the name is
\* looked up in the copy.
CC_CreateOpenPath(t, name) ==
    /\ fault = "none" /\ calls < MaxConcCalls
    /\ local[t].at = "idle"
    /\ calls' = calls + 1
    /\ LET root == FetchDir(St, DIRECTORY_SECTOR).table IN
       IF DirFind(root, name, TRUE) # -1 \/ DirFind(root, name, FALSE) # -1
       THEN Returned(t, "create", name, 0)
       ELSE local' = [local EXCEPT ![t] =
                [IdleLocal EXCEPT !.at = "c_fetchmap", !.op = "create",
                                  !.name = name, !.dir = root]]
    /\ UNCHANGED <<rwVars, schVars, files, disk, freeMap, filetable, handles, fault>>

\* Create, lines 301-311: the free map is fetched; Find, Add and Allocate
\* work on the copies.
CC_CreateFetchMap(t, size) ==
    /\ local[t].at = "c_fetchmap"
    /\ LET sector == BitmapFind(freeMap)
           add == DirAdd(local[t].dir, local[t].name, sector, FALSE)
           al == Allocate(freeMap \cup {sector}, size)
       IN IF sector = -1 \/ ~add.ok \/ ~al.ok
          THEN Returned(t, "create", local[t].name, 0)
          ELSE local' = [local EXCEPT ![t].at = "c_writehdr",
                                      ![t].sector = sector,
                                      ![t].dir = add.table,
                                      ![t].map = al.map,
                                      ![t].numBytes = size,
                                      ![t].dataSectors = al.dataSectors]
    /\ UNCHANGED <<rwVars, schVars, files, fsVars>>

\* Create, line 316: header->WriteBack(sector).
CC_CreateWriteHdr(t) ==
    /\ local[t].at = "c_writehdr"
    /\ disk' = [disk EXCEPT ![local[t].sector] =
                   HdrC(local[t].numBytes, local[t].dataSectors)]
    /\ local' = [local EXCEPT ![t].at = "c_writemap"]
    /\ UNCHANGED <<rwVars, schVars, files, freeMap, filetable, handles, fault, calls>>

\* Create, line 317: freeMap->WriteBack(freeMapFile).
CC_CreateWriteMap(t) ==
    /\ local[t].at = "c_writemap"
    /\ freeMap' = local[t].map
    /\ local' = [local EXCEPT ![t].at = "c_writedir"]
    /\ UNCHANGED <<rwVars, schVars, files, disk, filetable, handles, fault, calls>>

\* Create, lines 318-319: directory->WriteBack(directoryFile); returns true.
CC_CreateWriteDir(t) ==
    /\ local[t].at = "c_writedir"
    /\ disk' = WriteDir(St, DIRECTORY_SECTOR, local[t].dir).disk
    /\ Returned(t, "create", local[t].name, 1)
    /\ UNCHANGED <<rwVars, schVars, files, freeMap, filetable, handles, fault, calls>>

\* Header sectors of the files of the root directory.
RootFiles == {e.sector : e \in {x \in FetchDir(St, DIRECTORY_SECTOR).table :
                                   ~x.isDir}}

\* Expand, line 690: header->FetchFrom(sector), for a file of the root.
CC_ExpandFetchHdr(t, sector) ==
    /\ fault = "none" /\ calls < MaxConcCalls
    /\ local[t].at = "idle"
    /\ sector \in RootFiles
    /\ calls' = calls + 1
    /\ local' = [local EXCEPT ![t] =
            [IdleLocal EXCEPT !.at = "e_fetchmap", !.op = "expand",
                              !.sector = sector,
                              !.numBytes = ReadHdr(St, sector).numBytes,
                              !.dataSectors = ReadHdr(St, sector).dataSectors]]
    /\ UNCHANGED <<rwVars, schVars, files, disk, freeMap, filetable, handles, fault>>

\* Expand, lines 691-692: the free map is fetched and the header extended on
\* the copies.
CC_ExpandFetchMap(t, size) ==
    /\ local[t].at = "e_fetchmap"
    /\ LET ex == Extend(local[t], freeMap, size) IN
       IF ~ex.ok THEN Returned(t, "expand", <<>>, 0)
       ELSE local' = [local EXCEPT ![t].at = "e_writemap",
                                   ![t].map = ex.map,
                                   ![t].numBytes = ex.numBytes,
                                   ![t].dataSectors = ex.dataSectors]
    /\ UNCHANGED <<rwVars, schVars, files, fsVars>>

\* Expand, line 693: freeMap->WriteBack(freeMapFile).
CC_ExpandWriteMap(t) ==
    /\ local[t].at = "e_writemap"
    /\ freeMap' = local[t].map
    /\ local' = [local EXCEPT ![t].at = "e_writehdr"]
    /\ UNCHANGED <<rwVars, schVars, files, disk, filetable, handles, fault, calls>>

\* Expand, line 694: header->WriteBack(sector); returns true.
CC_ExpandWriteHdr(t) ==
    /\ local[t].at = "e_writehdr"
    /\ disk' = [disk EXCEPT ![local[t].sector] =
                   HdrC(local[t].numBytes, local[t].dataSectors)]
    /\ Returned(t, "expand", <<>>, 1)
    /\ UNCHANGED <<rwVars, schVars, files, freeMap, filetable, handles, fault, calls>>

NextConc ==
    \/ \E t \in Callers, name \in ConcNames : CC_CreateOpenPath(t, name)
    \/ \E t \in Callers, size \in CreateSizes : CC_CreateFetchMap(t, size)
    \/ \E t \in Callers : CC_CreateWriteHdr(t)
    \/ \E t \in Callers : CC_CreateWriteMap(t)
    \/ \E t \in Callers : CC_CreateWriteDir(t)
    \/ \E t \in Callers, s \in Sectors : CC_ExpandFetchHdr(t, s)
    \/ \E t \in Callers, size \in ExpandSizes : CC_ExpandFetchMap(t, size)
    \/ \E t \in Callers : CC_ExpandWriteMap(t)
    \/ \E t \in Callers : CC_ExpandWriteHdr(t)

SpecConc == Init /\ [][NextConc]_vars

\* A Create that returned true to t left its name in the root directory
\* (nothing removes names under SpecConc).
Created(t) ==
    (local[t].at = "idle" /\ local[t].op = "create" /\ local[t].ret = 1) =>
        DirFind(FetchDir(St, DIRECTORY_SECTOR).table, local[t].name, FALSE) # -1

\* C13 as stated: with calls interleaved at every disk access, no sector is
\* handed to two owners, and no persisted update of one call is overwritten
\* by another: the name every successful Create added is still in the
\* directory.
C13_CallsSerialized ==
    /\ \A s \in Sectors : Owners(St, s) <= 1
    /\ \A t \in Callers : Created(t)

(***************************************************************************)
(* OpenFile: reading and writing the bytes of a file                       *)
(* A handle h is [sector, numBytes, dataSectors, seekPosition]: numBytes   *)
(* and dataSectors are the header it caches.  Bytes are one-character      *)
(* strings.  A byte of a sector that holds something else than file data,  *)
(* and a byte of a buffer that was never filled, is the unknown byte "?".  *)
(* Unsigned arithmetic is modulo UnsignedRange.  The calls run one at a    *)
(* time, so the P and V of ReadAt and WriteAt on a free semaphore leave    *)
(* it as it was.                                                           *)
(***************************************************************************)

\* Values of an unsigned, scaled down with the file size: sums of positions
\* and counts within a few file lengths do not wrap, differences below zero
\* do.
UnsignedRange == 4 * NumDirect * SectorSize

ZeroByte == "0"

Stale == "?"

U(n) == n % UnsignedRange

DataC(b) ==
    [kind |-> "data", numBytes |-> 0, dataSectors |-> <<>>, table |-> {},
     bytes |-> b]

\* The SECTOR_SIZE bytes synchDisk->ReadSector delivers.
SectorBytes(c) ==
    IF c.kind = "data" THEN c.bytes
    ELSE [i \in 1..SectorSize |-> IF c.kind = "zero" THEN ZeroByte ELSE Stale]

\* hdr->FetchFrom(sector) on a handle.
FetchHdr(S, h) ==
    [h EXCEPT !.numBytes = ReadHdr(S, h.sector).numBytes,
              !.dataSectors = ReadHdr(S, h.sector).dataSectors]

\* OpenFile::OpenFile(sector).
NewOpenFile(S, sector) ==
    FetchHdr(S, [ClosedFile EXCEPT !.open = TRUE, !.sector = sector])

\* OpenFile::Length.
Length(S, h) == FetchHdr(S, h).numBytes

\* FileHeader::ByteToSector(offset); 0 - 1 stands for an entry of
\* dataSectors beyond numSectors.
ByteToSector(h, offset) ==
    IF (offset \div SectorSize) + 1 <= Len(h.dataSectors)
    THEN h.dataSectors[(offset \div SectorSize) + 1]
    ELSE -1

RECURSIVE ReadSectors(_, _, _, _)
\* Internal_ReadAt, lines 209-212: the sectors i .. lastSector in a row.
ReadSectors(S, h, i, lastSector) ==
    IF i > lastSector THEN <<>>
    ELSE (IF ByteToSector(h, i * SectorSize) = -1
          THEN [j \in 1..SectorSize |-> Stale]
          ELSE SectorBytes(S.disk[ByteToSector(h, i * SectorSize)]))
         \o ReadSectors(S, h, i + 1, lastSector)

\* Internal_ReadAt without the clamp at lines 203-205: the count asked for
\* is the count returned.
Internal_ReadAt_NoClamp(S, h, numBytes, position) ==
    LET firstSector == position \div SectorSize
        lastSector == (position + numBytes - 1) \div SectorSize
    IN IF numBytes = 0 \/ position >= h.numBytes
       THEN [ret |-> 0, into |-> <<>>]
       ELSE [ret |-> numBytes,
             into |-> SubSeq(ReadSectors(S, h, firstSector, lastSector),
                             position - firstSector * SectorSize + 1,
                             position - firstSector * SectorSize + numBytes)]

\* OpenFile::Internal_ReadAt(into, numBytes, position): the count returned
\* and the bytes copied to into.
Internal_ReadAt(S, h, numBytes, position) ==
    LET fileLength == h.numBytes
        n == IF U(position + numBytes) > fileLength
             THEN U(fileLength - position) ELSE numBytes
        firstSector == position \div SectorSize
        lastSector == (position + n - 1) \div SectorSize
    IN IF numBytes = 0 \/ position >= fileLength
       THEN [ret |-> 0, into |-> <<>>]
       ELSE [ret |-> n,
             into |-> SubSeq(ReadSectors(S, h, firstSector, lastSector),
                             position - firstSector * SectorSize + 1,
                             position - firstSector * SectorSize + n)]

\* new char[n]: a buffer never filled.
NewBuf(n) == [j \in 1..n |-> Stale]

\* memcpy(&buf[at], from, n), at counted from 0.
CopyIn(buf, at, from, n) ==
    [j \in 1..Len(buf) |-> IF j > at /\ j <= at + n THEN from[j - at] ELSE buf[j]]

RECURSIVE WriteSectors(_, _, _, _, _, _)
\* Internal_WriteAt, lines 267-270: buf written to the sectors i ..
\* lastSector.
WriteSectors(S, h, buf, firstSector, i, lastSector) ==
    IF i > lastSector \/ S.fault # "none" THEN S
    ELSE IF ByteToSector(h, i * SectorSize) = -1 THEN Fault(S, "garbage")
    ELSE WriteSectors(
             [S EXCEPT !.disk[ByteToSector(h, i * SectorSize)] =
                 DataC(SubSeq(buf, (i - firstSector) * SectorSize + 1,
                              (i - firstSector + 1) * SectorSize))],
             h, buf, firstSector, i + 1, lastSector)

\* Internal_WriteAt without the read of the first sector at lines 257-258:
\* the bytes before position in that sector are whatever new char[] held.
WriteBytes_NoReadFirst(S, h, from, numBytes, position) ==
    LET firstSector == position \div SectorSize
        lastSector == (position + numBytes - 1) \div SectorSize
        numSectors == 1 + lastSector - firstSector
        firstAligned == position = firstSector * SectorSize
        lastAligned == position + numBytes = (lastSector + 1) * SectorSize
        rl == Internal_ReadAt(S, h, SectorSize, lastSector * SectorSize)
        b1 == NewBuf(numSectors * SectorSize)
        b2 == IF ~lastAligned /\ (firstSector # lastSector \/ firstAligned)
              THEN CopyIn(b1, (lastSector - firstSector) * SectorSize,
                          rl.into, rl.ret)
              ELSE b1
        b3 == CopyIn(b2, position - firstSector * SectorSize, from, numBytes)
    IN [st |-> WriteSectors(S, h, b3, firstSector, firstSector, lastSector),
        ret |-> numBytes]

\* Internal_WriteAt, lines 246-271, once numBytes is settled: S is the file
\* system after the Expand at line 237, if any.
WriteBytes(S, h, from, numBytes, position) ==
    LET firstSector == position \div SectorSize
        lastSector == (position + numBytes - 1) \div SectorSize
        numSectors == 1 + lastSector - firstSector
        firstAligned == position = firstSector * SectorSize
        lastAligned == position + numBytes = (lastSector + 1) * SectorSize
        rf == Internal_ReadAt(S, h, SectorSize, firstSector * SectorSize)
        rl == Internal_ReadAt(S, h, SectorSize, lastSector * SectorSize)
        b0 == NewBuf(numSectors * SectorSize)
        b1 == IF ~firstAligned THEN CopyIn(b0, 0, rf.into, rf.ret) ELSE b0
        b2 == IF ~lastAligned /\ (firstSector # lastSector \/ firstAligned)
              THEN CopyIn(b1, (lastSector - firstSector) * SectorSize,
                          rl.into, rl.ret)
              ELSE b1
        b3 == CopyIn(b2, position - firstSector * SectorSize, from, numBytes)
    IN [st |-> WriteSectors(S, h, b3, firstSector, firstSector, lastSector),
        ret |-> numBytes]

\* Internal_WriteAt, lines 235-240, with what Expand returned.
InternalExpanded(ex, h, from, numBytes, position) ==
    IF ex.st.fault # "none" THEN [st |-> ex.st, ret |-> 0]
    ELSE WriteBytes(ex.st, h, from,
                    IF ex.ret = 1 THEN numBytes ELSE U(h.numBytes - position),
                    position)

\* OpenFile::Internal_WriteAt(from, numBytes, position).
Internal_WriteAt(S, h, from, numBytes, position) ==
    IF numBytes <= 0 THEN [st |-> Fault(S, "assert"), ret |-> 0]
    ELSE IF position >= h.numBytes THEN [st |-> S, ret |-> 0]
    ELSE IF U(position + numBytes) > h.numBytes
    THEN InternalExpanded(
             ExpandF(S, h.sector, U(numBytes - (h.numBytes - position))),
             h, from, numBytes, position)
    ELSE WriteBytes(S, h, from, numBytes, position)

\* WriteAt, lines 162-168, with numBytes settled and S the file system after
\* the Expand at line 158, if any.
WriteAtChecked(S, h, from, numBytes, position) ==
    IF S.fault # "none" THEN [st |-> S, ret |-> 0]
    ELSE IF ~(U(position + numBytes) <= Length(S, h))
    THEN [st |-> Fault(S, "assert"), ret |-> 0]
    ELSE Internal_WriteAt(S, FetchHdr(S, h), from, numBytes, position)

\* The handle after WriteAt: its header is the one fetched at line 165.
CachedAfterWrite(S, h, numBytes, position) ==
    IF Length(S, h) < U(position + numBytes)
    THEN FetchHdr(ExpandF(S, h.sector, U(U(position + numBytes)
                                         - Length(S, h) + 1)).st, h)
    ELSE FetchHdr(S, h)

\* WriteAt, lines 158-161, with what Expand returned.
WriteAtExpanded(ex, h, from, numBytes, position) ==
    WriteAtChecked(ex.st, h, from,
                   IF ex.ret = 1 THEN numBytes
                   ELSE U(Length(ex.st, h) - position),
                   position)

\* The size WriteAt asks Expand for, line 157.
ExpandSize(S, h, numBytes, position) ==
    U(U(position + numBytes) - Length(S, h) + 1)

\* OpenFile::WriteAt(from, numBytes, position): the file system afterwards
\* and the count returned.
WriteAt(S, h, from, numBytes, position) ==
    IF ~ReadHdr(S, h.sector).ok THEN [st |-> Fault(S, "garbage"), ret |-> 0]
    ELSE IF Length(S, h) < U(position + numBytes)
    THEN WriteAtExpanded(
             ExpandF(S, h.sector, ExpandSize(S, h, numBytes, position)),
             h, from, numBytes, position)
    ELSE WriteAtChecked(S, h, from, numBytes, position)

\* ReadAt without the FetchFrom at line 126: the header the handle cached
\* is used.
ReadAt_Cached(S, h, numBytes, position) ==
    Internal_ReadAt(S, h, numBytes, position)

\* OpenFile::ReadAt(into, numBytes, position).
ReadAt(S, h, numBytes, position) ==
    Internal_ReadAt(S, FetchHdr(S, h), numBytes, position)

(***************************************************************************)
(* Files read and written through handles, one call at a time              *)
(***************************************************************************)

\* Calls followed after the format when files are read and written.
MaxIOCalls == 5

\* The longest file a header can describe (MAX_FILE_SIZE).
MaxFileSize == NumDirect * SectorSize

IOPaths == { <<Slash, "f">>, <<Slash, "g">> }

\* initialSize of Create.
IOSizes == {0, SectorSize}

\* The n bytes c, c', c, ... where c' is the other of "x" and "y".
Pattern(c, n) ==
    [j \in 1..n |-> IF j % 2 = 1 THEN c ELSE IF c = "x" THEN "y" ELSE "x"]

\* Counts handed to Read and Write: within a sector, a sector, across a
\* sector boundary, and the longest file.
IOCounts == {1, SectorSize, SectorSize + 1, MaxFileSize}

\* Buffers handed to Write.
WriteBufs == {Pattern(c, n) : c \in {"x", "y"}, n \in IOCounts}

\* Arguments of Seek: the start, inside the first sector, the sector
\* boundary, and around the longest file.
SeekPositions == {0, 1, SectorSize, MaxFileSize, MaxFileSize + 1}

IO_Create(path, size) ==
    /\ calls < MaxIOCalls
    /\ CreateOp(RootCwd, path, size)

\* SC_OPEN: new OpenFile(sector) for the sector Open found.
IO_Opened(k, r) ==
    /\ Commit(r.st)
    /\ handles' = IF r.ret = -1 THEN handles
                  ELSE [handles EXCEPT ![r.ret] = @ + 1]
    /\ files' = IF r.ret = -1 THEN files
                ELSE [files EXCEPT ![k] = NewOpenFile(r.st, r.ret)]

IO_Open(k, path) ==
    /\ fault = "none" /\ calls < MaxIOCalls
    /\ ~files[k].open
    /\ IO_Opened(k, OpenF(St, RootCwd, path, 0))
    /\ UNCHANGED <<rwVars, schVars, local>>

\* SC_CLOSE: delete of the OpenFile.
IO_Close(k) ==
    /\ fault = "none" /\ calls < MaxIOCalls
    /\ files[k].open
    /\ Commit(Destroy(St, files[k].sector, RootCwd, 0))
    /\ handles' = [handles EXCEPT ![files[k].sector] = @ - 1]
    /\ files' = [files EXCEPT ![k] = ClosedFile]
    /\ UNCHANGED <<rwVars, schVars, local>>

\* OpenFile::Seek(position).
IO_Seek(k, position) ==
    /\ fault = "none" /\ calls < MaxIOCalls
    /\ files[k].open
    /\ files[k].seekPosition # position
    /\ calls' = calls + 1
    /\ files' = [files EXCEPT ![k].seekPosition = position]
    /\ UNCHANGED <<rwVars, schVars, local, disk, freeMap, filetable, handles, fault>>

\* OpenFile::Write, lines 83-91, with what WriteAt returned.
IO_Written(k, r, h) ==
    /\ Commit(r.st)
    /\ files' = [files EXCEPT ![k] =
                    [h EXCEPT !.seekPosition = U(@ + r.ret), !.ret = r.ret,
                              !.into = <<>>]]

\* OpenFile::Write(from, numBytes).
IO_Write(k, from) ==
    /\ fault = "none" /\ calls < MaxIOCalls
    /\ files[k].open
    /\ IO_Written(k, WriteAt(St, files[k], from, Len(from),
                             files[k].seekPosition),
                  CachedAfterWrite(St, files[k], Len(from),
                                   files[k].seekPosition))
    /\ UNCHANGED <<rwVars, schVars, local, handles>>

\* OpenFile::Read, lines 72-80, with what ReadAt returned.
IO_HasRead(k, r) ==
    files' = [files EXCEPT ![k] =
                 [FetchHdr(St, files[k]) EXCEPT
                      !.seekPosition = U(@ + r.ret), !.ret = r.ret,
                      !.into = r.into]]

\* OpenFile::Read(into, numBytes).
IO_Read(k, numBytes) ==
    /\ fault = "none" /\ calls < MaxIOCalls
    /\ files[k].open
    /\ calls' = calls + 1
    /\ IO_HasRead(k, ReadAt(St, files[k], numBytes, files[k].seekPosition))
    /\ UNCHANGED <<rwVars, schVars, local, disk, freeMap, filetable, handles, fault>>

NextIO ==
    \/ \E p \in IOPaths, size \in IOSizes : IO_Create(p, size)
    \/ \E k \in Slots, p \in IOPaths : IO_Open(k, p)
    \/ \E k \in Slots : IO_Close(k)
    \/ \E k \in Slots, position \in SeekPositions : IO_Seek(k, position)
    \/ \E k \in Slots, from \in WriteBufs : IO_Write(k, from)
    \/ \E k \in Slots, n \in IOCounts : IO_Read(k, n)

SpecIO == Init /\ [][NextIO]_vars

(***************************************************************************)
(* Claims on reading and writing                                           *)
(***************************************************************************)

OpenSlots == {k \in Slots : files[k].open}

\* numSectors of the header at sector s.
NumSectorsOf(S, s) == Len(ReadHdr(S, s).dataSectors)

\* C14 as stated: a WriteAt of N bytes at position L == Length() that
\* succeeds (returns N) leaves Length() == L + N and
\* numSectors == ceil((L + N) / SECTOR_SIZE).
C14_WriteAtEndGrowsExactly ==
    fault = "none" =>
    \A k \in OpenSlots, from \in WriteBufs :
        LET L == Length(St, files[k])
            r == WriteAt(St, files[k], from, Len(from), L)
        IN (r.st.fault = "none" /\ r.ret = Len(from)) =>
               /\ Length(r.st, files[k]) = L + Len(from)
               /\ NumSectorsOf(r.st, files[k].sector)
                      = DivRoundUp(L + Len(from), SectorSize)

\* The size the header of handle h's file has on disk.
StoredLength(S, h) == ReadHdr(S, h.sector).numBytes

\* C15: whatever size handle b cached, in particular after a WriteAt through
\* another handle of the same sector grew the file, Length() through b is
\* the stored size, ReadAt through b reads up to the stored size, and WriteAt
\* through b within the stored size writes everything without growing the
\* file again.
C15_ExtensionVisible ==
    fault = "none" =>
    \A b \in OpenSlots :
        LET S == St
            stored == StoredLength(St, files[b])
        IN
        /\ Length(S, files[b]) = stored
        /\ \A n \in IOCounts, p \in SeekPositions :
               ReadAt(S, files[b], n, p).ret =
                   IF p >= stored THEN 0 ELSE Min({n, stored - p})
        /\ \A from \in WriteBufs, p \in SeekPositions :
               p + Len(from) <= stored =>
                   LET w == WriteAt(S, files[b], from, Len(from), p) IN
                   /\ w.ret = Len(from)
                   /\ StoredLength(w.st, files[b]) = stored

\* Two handles on one file, one of which has written and grown the file
\* beyond the size the other cached.
C15_Witness ==
    /\ fault = "none"
    /\ \E a \in OpenSlots, b \in OpenSlots :
           /\ a # b
           /\ files[a].sector = files[b].sector
           /\ files[a].ret > 0
           /\ files[b].numBytes < StoredLength(St, files[b])
           /\ Length(St, files[b]) > files[b].numBytes

\* C16 as stated: for position + n > Length() and n > 0, if Expand fails
\* WriteAt trips no assertion and returns c with 0 <= c < n, c == 0 when
\* position >= Length(), having written exactly the first c bytes.
C16_ShortWriteNeverAborts ==
    fault = "none" =>
    \A k \in OpenSlots, from \in WriteBufs, p \in SeekPositions :
        LET L == Length(St, files[k])
            r == WriteAt(St, files[k], from, Len(from), p)
        IN (/\ p + Len(from) > L
            /\ ExpandF(St, files[k].sector,
                       ExpandSize(St, files[k], Len(from), p)).ret = 0) =>
               /\ r.st.fault = "none"
               /\ 0 <= r.ret /\ r.ret < Len(from)
               /\ p >= L => r.ret = 0
               /\ r.ret > 0 =>
                      ReadAt(r.st, files[k], r.ret, p).into = SubSeq(from, 1, r.ret)

\* The same for positions other than Length(): the count is short and no
\* assertion is tripped.
C16_ShortWriteOffTheEnd ==
    fault = "none" =>
    \A k \in OpenSlots, from \in WriteBufs, p \in SeekPositions :
        LET L == Length(St, files[k])
            r == WriteAt(St, files[k], from, Len(from), p)
        IN (/\ p + Len(from) > L
            /\ p # L
            /\ ExpandF(St, files[k].sector,
                       ExpandSize(St, files[k], Len(from), p)).ret = 0) =>
               /\ r.st.fault = "none"
               /\ 0 <= r.ret /\ r.ret < Len(from)
               /\ p >= L => r.ret = 0
               /\ r.ret > 0 =>
                      ReadAt(r.st, files[k], r.ret, p).into = SubSeq(from, 1, r.ret)

\* Create(p, N); h = Open(p); Write(h, B); Close(h); h' = Open(p);
\* R = Read(h', |B|) from file system S: whether every call before the Read
\* succeeded, what the Read returned, and the stored length at the end.
RoundTrip(S, p, N, B) ==
    LET c == CreateF(S, RootCwd, p, N, 0)
        o == OpenF(c.st, RootCwd, p, 0)
        w == WriteAt(o.st, NewOpenFile(o.st, o.ret), B, Len(B), 0)
        cl == Destroy(w.st, o.ret, RootCwd, 0)
        o2 == OpenF(cl, RootCwd, p, 0)
        r == ReadAt(o2.st, NewOpenFile(o2.st, o2.ret), Len(B), 0)
    IN IF c.ret # 1 \/ o.ret = -1 THEN [made |-> FALSE]
       ELSE IF w.st.fault # "none" \/ o2.ret = -1
       THEN [made |-> TRUE, fault |-> w.st.fault, ret |-> -1, into |-> <<>>,
             length |-> -1]
       ELSE [made |-> TRUE, fault |-> "none", ret |-> r.ret, into |-> r.into,
             length |-> ReadHdr(o2.st, o2.ret).numBytes]

\* Free sectors of S.
NumClear(S) == Cardinality(Sectors \ S.map)

\* C17 as stated: where the file can be created and there is room for a
\* file of max(N, |B|) bytes, the round trip returns R = B with count |B|
\* and leaves a stored length of at least |B|.
C17_RoundTrip ==
    fault = "none" =>
    \A p \in IOPaths, N \in 0..MaxFileSize, B \in WriteBufs :
        LET t == RoundTrip(St, p, N, B) IN
        (/\ t.made
         /\ NumClear(St) >= 1 + DivRoundUp(Max({N, Len(B)}), SectorSize)) =>
            /\ t.fault = "none"
            /\ t.ret = Len(B)
            /\ t.into = B
            /\ t.length >= Len(B)

\* The round trip where there is room for one byte more than B: a file of
\* max(N, |B| + 1) bytes fits the header and the free sectors.
C17_RoundTripWithSlack ==
    fault = "none" =>
    \A p \in IOPaths, N \in 0..MaxFileSize, B \in WriteBufs :
        LET t == RoundTrip(St, p, N, B) IN
        (/\ t.made
         /\ Max({N, Len(B) + 1}) <= MaxFileSize
         /\ NumClear(St) >= 1 + DivRoundUp(Max({N, Len(B) + 1}), SectorSize)) =>
            /\ t.fault = "none"
            /\ t.ret = Len(B)
            /\ t.into = B
            /\ t.length >= Len(B)

(***************************************************************************)
(* Claims on Create                                                        *)
(***************************************************************************)

\* Calls of Create the claims examine: the calls made, and two with a
\* further leaf name.
CreateCalls ==
    LiveCalls \cup { <<RootCwd, <<Slash, "g">> >>,
                     <<RootCwd, <<Slash, "d", Slash, "g">> >> }

\* Create(c) finds its parent directory and no entry with the leaf name.
CanAdd(S, c) ==
    LET op == OpenPath(S, c[1], c[2], 0) IN
    /\ op.st.fault = "none" /\ op.found
    /\ \A x \in op.dir : x.name # getName(CheckRoot(c[1], c[2]))

\* The parent directory of Create(c) has no free slot.
ParentFull(S, c) ==
    Cardinality(OpenPath(S, c[1], c[2], 0).dir) >= NumDirEntries

\* C18: where Create(path, size) finds the parent and the name is new, and
\* there is no clear sector for the header, or no free slot in the parent,
\* or fewer clear sectors than the header and the data need, Create returns
\* false and the persisted bitmap and every sector (parent directory and
\* headers included) are as before.
C18_CreateFailsAtomically ==
    fault = "none" =>
    \A c \in CreateCalls, size \in 0..MaxFileSize :
        (/\ CanAdd(St, c)
         /\ \/ NumClear(St) = 0
            \/ ParentFull(St, c)
            \/ 1 + DivRoundUp(size, SectorSize) > NumClear(St)) =>
            /\ CreateF(St, c[1], c[2], size, 0).ret = 0
            /\ CreateF(St, c[1], c[2], size, 0).st.disk = disk
            /\ CreateF(St, c[1], c[2], size, 0).st.map = freeMap
            /\ CreateF(St, c[1], c[2], size, 0).st.fault = "none"

\* The same where no open-file node is marked for removal, so that the
\* handles OpenPath creates and deletes on the way start no Remove.
C18_FailsAtomicallyNoneMarked ==
    (fault = "none" /\ \A s \in Sectors : ~filetable[s].remove) =>
    \A c \in CreateCalls, size \in 0..MaxFileSize :
        (/\ CanAdd(St, c)
         /\ \/ NumClear(St) = 0
            \/ ParentFull(St, c)
            \/ 1 + DivRoundUp(size, SectorSize) > NumClear(St)) =>
            /\ CreateF(St, c[1], c[2], size, 0).ret = 0
            /\ CreateF(St, c[1], c[2], size, 0).st.disk = disk
            /\ CreateF(St, c[1], c[2], size, 0).st.map = freeMap
            /\ CreateF(St, c[1], c[2], size, 0).st.fault = "none"

(***************************************************************************)
(* Longer runs of one thread in the root, on few paths: a directory can be *)
(* removed with an open file in it, and its sectors handed out again.      *)
(***************************************************************************)

\* Calls followed after the format in these runs.
MaxLongCalls == 9

LongPaths ==
    { <<Slash, "d">>, <<Slash, "e">>, <<Slash, "f">>,
      <<Slash, "d", Slash, "f">> }

\* A call that returns the file system S and no handle.
L_Done(S) ==
    /\ fault = "none"
    /\ calls < MaxLongCalls
    /\ Commit(S)
    /\ UNCHANGED handles
    /\ UNCHANGED <<rwVars, schVars, ccVars>>

L_Create(path) == L_Done(CreateF(St, RootCwd, path, 0, 0).st)

L_Open(path) ==
    /\ fault = "none"
    /\ calls < MaxLongCalls
    /\ OpenDone(OpenF(St, RootCwd, path, 0))
    /\ UNCHANGED <<rwVars, schVars, ccVars>>

L_Remove(path) == L_Done(RemoveF(St, RootCwd, path, 0).st)

L_MakeDir(path) == L_Done(MakeDirF(St, RootCwd, path, 0).st)

L_RemoveDir(path) ==
    /\ FileSector(St, <<RootCwd, path>>) = -1
    /\ L_Done(RemoveDirF(St, RootCwd, path, 0).st)

NextLong ==
    \/ \E p \in LongPaths : L_Create(p)
    \/ \E p \in LongPaths : L_Open(p)
    \/ \E p \in LongPaths : L_Remove(p)
    \/ \E p \in LongPaths : L_MakeDir(p)
    \/ \E p \in LongPaths : L_RemoveDir(p)

SpecLong == Init /\ [][NextLong]_vars

\* Calls of Create examined in the longer runs.
LongCreateCalls == CreateCalls \cup {<<RootCwd, p>> : p \in LongPaths}

\* C19 as stated: where the leaf name of Create(path) is in an entry of the
\* parent directory, file or directory, Create returns false and the
\* persisted bitmap and every sector are as before; and a Create repeated
\* right after it returned true returns false.
C19_CreateExistingFails ==
    fault = "none" =>
    \A c \in LongCreateCalls, size \in IOSizes :
        /\ NamesEntry(St, c) =>
              /\ CreateF(St, c[1], c[2], size, 0).ret = 0
              /\ CreateF(St, c[1], c[2], size, 0).st.disk = disk
              /\ CreateF(St, c[1], c[2], size, 0).st.map = freeMap
        /\ CreateF(St, c[1], c[2], size, 0).ret = 1 =>
              CreateF(CreateF(St, c[1], c[2], size, 0).st,
                      c[1], c[2], size, 0).ret = 0

\* The same where no open-file node is marked for removal.
C19_ExistingFailsNoneMarked ==
    (fault = "none" /\ \A s \in Sectors : ~filetable[s].remove) =>
    \A c \in LongCreateCalls, size \in IOSizes :
        /\ NamesEntry(St, c) =>
              /\ CreateF(St, c[1], c[2], size, 0).ret = 0
              /\ CreateF(St, c[1], c[2], size, 0).st.disk = disk
              /\ CreateF(St, c[1], c[2], size, 0).st.map = freeMap
        /\ CreateF(St, c[1], c[2], size, 0).ret = 1 =>
              CreateF(CreateF(St, c[1], c[2], size, 0).st,
                      c[1], c[2], size, 0).ret = 0

(***************************************************************************)
(* Claims on directory contents                                            *)
(***************************************************************************)

C21_OpenNotFound ==
    fault = "none" =>
    \A c \in LiveCalls :
        FileSector(St, c) = -1 =>
            /\ OpenF(St, c[1], c[2], 0).ret = -1
            /\ OpenF(St, c[1], c[2], 0).st.fault = "none"
            /\ OpenF(St, c[1], c[2], 0).st.ft = filetable

\* The same for the paths whose parent directory OpenPath finds, where no
\* open-file node sits on the header sector of a directory.
C21_OpenLeafAbsent ==
    (fault = "none" /\ \A s \in LiveDirs(St) : ~filetable[s].present) =>
    \A c \in LiveCalls :
        (FileSector(St, c) = -1 /\ OpenPath(St, c[1], c[2], 0).found) =>
            /\ OpenF(St, c[1], c[2], 0).ret = -1
            /\ OpenF(St, c[1], c[2], 0).st.fault = "none"
            /\ OpenF(St, c[1], c[2], 0).st.ft = filetable

\* C22: Remove(path) of a path that names no entry returns false and
\* leaves every sector, the persisted bitmap and the open-file table as they
\* were, when the leaf is absent from its parent and also when an
\* intermediate directory does not exist.
C22_RemoveNotFound ==
    fault = "none" =>
    \A c \in LiveCalls :
        ~NamesEntry(St, c) =>
            /\ RemoveF(St, c[1], c[2], 0).ret = 0
            /\ RemoveF(St, c[1], c[2], 0).st = St

\* The same for the paths whose parent directory OpenPath finds, where no
\* open-file node sits on the header sector of a directory.
C22_RemoveLeafAbsent ==
    (fault = "none" /\ \A s \in LiveDirs(St) : ~filetable[s].present) =>
    \A c \in LiveCalls :
        (~NamesEntry(St, c) /\ OpenPath(St, c[1], c[2], 0).found) =>
            /\ RemoveF(St, c[1], c[2], 0).ret = 0
            /\ RemoveF(St, c[1], c[2], 0).st = St

(***************************************************************************)
(* Scheduler (scheduler.cc)                                                *)
(*                                                                         *)
(* A ready list is a sequence of <<thread, key>> elements, head first.     *)
(* Threads are created with a priority, made ready, chosen by              *)
(* FindNextToRun and switched to by Run; the running thread may block.     *)
(***************************************************************************)

\* Priorities given to threads: two below 20, 20, and two above.
Priorities == {3, 5, 20, 25, 30}

\* Calls of ReadyToRun in a run.
MaxArrivals == 4

\* SortedInsert with the new element put before the elements of equal key.
SortedInsert_BeforeEqual(list, item, sortKey) ==
    LET k == Cardinality({j \in 1..Len(list) : list[j][2] < sortKey}) IN
    SubSeq(list, 1, k) \o << <<item, sortKey>> >> \o SubSeq(list, k + 1, Len(list))

\* List::SortedInsert(item, sortKey): the list stays in increasing order of
\* key, the new element after the elements of equal key.
SortedInsert(list, item, sortKey) ==
    LET k == Cardinality({j \in 1..Len(list) : list[j][2] <= sortKey}) IN
    SubSeq(list, 1, k) \o << <<item, sortKey>> >> \o SubSeq(list, k + 1, Len(list))

\* ReadyToRun, lines 54-60: the list a priority goes to.
ListOf(priority) == IF priority < 20 THEN 0 ELSE IF priority = 20 THEN 1 ELSE 2

\* Scheduler::ReadyToRun(thread) on the ready lists rl.
ReadyToRun(rl, t, priority) ==
    [rl EXCEPT ![ListOf(priority)] = SortedInsert(@, t, priority)]

\* The lists in the order FindNextToRun would look at them if its loop ran
\* from 0 up.
ScanOrder_LowFirst == <<0, 1, 2>>

\* FindNextToRun, line 70: for (int i = 2; i >= 0; i--).
ScanOrder == <<2, 1, 0>>

\* Scheduler::FindNextToRun() on the ready lists rl: the thread returned
\* (NULL if every list is empty) and the lists left.
\* FindNextToRun with the head read but not popped.
FindNextToRun_NoPop(rl) ==
    LET full == {j \in 1..Len(ScanOrder) : rl[ScanOrder[j]] # <<>>} IN
    IF full = {} THEN [thread |-> NULL, lists |-> rl]
    ELSE [thread |-> Head(rl[ScanOrder[Min(full)]])[1], lists |-> rl]

FindNextToRun(rl) ==
    LET full == {j \in 1..Len(ScanOrder) : rl[ScanOrder[j]] # <<>>} IN
    IF full = {} THEN [thread |-> NULL, lists |-> rl]
    ELSE LET i == ScanOrder[Min(full)] IN
         [thread |-> Head(rl[i])[1], lists |-> [rl EXCEPT ![i] = Tail(@)]]

\* Thread::Thread: a thread is created with its priority; threads are
\* numbered in the order of their creation.
S_NewThread(t, p) ==
    /\ thread[t].status = "NONE"
    /\ \A u \in 1..(t - 1) : thread[u].status # "NONE"
    /\ thread' = [thread EXCEPT ![t] = [status |-> "JUST_CREATED",
                                        priority |-> p, arrived |-> 0]]
    /\ UNCHANGED <<readyList, nextThread, currentThread, arrivals>>
    /\ UNCHANGED <<rwVars, fsVars, ccVars>>

\* Scheduler::ReadyToRun(t), for a thread that is on no ready list.
S_ReadyToRun(t) ==
    /\ thread[t].status \in {"JUST_CREATED", "RUNNING", "BLOCKED"}
    /\ t # nextThread
    /\ arrivals < MaxArrivals
    /\ arrivals' = arrivals + 1
    /\ thread' = [thread EXCEPT ![t].status = "READY",
                                ![t].arrived = arrivals + 1]
    /\ readyList' = ReadyToRun(readyList, t, thread[t].priority)
    /\ UNCHANGED <<nextThread, currentThread>>
    /\ UNCHANGED <<rwVars, fsVars, ccVars>>

\* Scheduler::FindNextToRun(), when the thread it returned before has been
\* switched to.
S_FindNextToRun ==
    /\ nextThread = NULL
    /\ nextThread' = FindNextToRun(readyList).thread
    /\ readyList' = FindNextToRun(readyList).lists
    /\ thread' = [t \in SchedThreads |->
                    IF t = FindNextToRun(readyList).thread
                    THEN [thread[t] EXCEPT !.arrived = 0] ELSE thread[t]]
    /\ UNCHANGED <<currentThread, arrivals>>
    /\ UNCHANGED <<rwVars, fsVars, ccVars>>

\* Thread::Sleep: the running thread blocks.
S_Sleep ==
    /\ currentThread # NULL
    /\ thread[currentThread].status = "RUNNING"
    /\ thread' = [thread EXCEPT ![currentThread].status = "BLOCKED"]
    /\ UNCHANGED <<readyList, nextThread, currentThread, arrivals>>
    /\ UNCHANGED <<rwVars, fsVars, ccVars>>

\* Scheduler::Run(nextThread), lines 96-97: the old thread is no longer
\* running, as the caller arranged.
S_Run ==
    /\ nextThread # NULL
    /\ currentThread # NULL => thread[currentThread].status # "RUNNING"
    /\ currentThread' = nextThread
    /\ thread' = [thread EXCEPT ![nextThread].status = "RUNNING"]
    /\ nextThread' = NULL
    /\ UNCHANGED <<readyList, arrivals>>
    /\ UNCHANGED <<rwVars, fsVars, ccVars>>

NextSched ==
    \/ \E t \in SchedThreads, p \in Priorities : S_NewThread(t, p)
    \/ \E t \in SchedThreads : S_ReadyToRun(t)
    \/ S_FindNextToRun
    \/ S_Sleep
    \/ S_Run

SpecSched == Init /\ [][NextSched]_vars

(***************************************************************************)
(* Claims on the scheduler (SpecSched)                                     *)
(***************************************************************************)

\* tier(t) of the claims: 0 if priority < 20, 1 if priority == 20, else 2.
Tier(t) ==
    IF thread[t].priority < 20 THEN 0
    ELSE IF thread[t].priority = 20 THEN 1 ELSE 2

\* Thread t was passed to ReadyToRun and has not been returned since.
Ready(t) == thread[t].arrived > 0

\* C23: FindNextToRun never returns a thread of tier k while a thread of a
\* greater tier is ready, whatever the order of the ReadyToRun calls.
C23_StrictPriorityAcrossTiers ==
    FindNextToRun(readyList).thread # NULL =>
        \A u \in SchedThreads :
            Ready(u) => Tier(u) <= Tier(FindNextToRun(readyList).thread)

\* C23 witness: threads of the three tiers are ready, made ready low
\* first and high last, and FindNextToRun returns the one of the high tier.
C23_Witness ==
    \E a \in SchedThreads, b \in SchedThreads, c \in SchedThreads :
        /\ Ready(a) /\ Ready(b) /\ Ready(c)
        /\ Tier(a) = 0 /\ Tier(b) = 1 /\ Tier(c) = 2
        /\ thread[a].arrived < thread[b].arrived
        /\ thread[b].arrived < thread[c].arrived
        /\ FindNextToRun(readyList).thread = c

\* C24: of two ready threads of the same priority, FindNextToRun returns
\* first the one that was passed to ReadyToRun first.
C24_FifoAmongEqualPriorities ==
    FindNextToRun(readyList).thread # NULL =>
        \A u \in SchedThreads :
            (/\ Ready(u)
             /\ thread[u].priority
                  = thread[FindNextToRun(readyList).thread].priority) =>
                thread[FindNextToRun(readyList).thread].arrived
                    <= thread[u].arrived

\* C24 witness: two threads of priority 20 are ready together with a thread
\* of another tier that was made ready between them, and the thread that
\* FindNextToRun returns is the earlier of the two.
C24_Witness ==
    \E a \in SchedThreads, b \in SchedThreads, c \in SchedThreads :
        /\ Ready(a) /\ Ready(b) /\ Ready(c)
        /\ thread[a].priority = 20 /\ thread[b].priority = 20
        /\ Tier(c) = 0
        /\ thread[a].arrived < thread[c].arrived
        /\ thread[c].arrived < thread[b].arrived
        /\ FindNextToRun(readyList).thread = a

\* C25: of two ready threads of the same tier, whatever their priorities,
\* FindNextToRun returns first the one that was passed to ReadyToRun first.
C25_FifoWithinTier ==
    FindNextToRun(readyList).thread # NULL =>
        \A u \in SchedThreads :
            (Ready(u) /\ Tier(u) = Tier(FindNextToRun(readyList).thread)) =>
                thread[FindNextToRun(readyList).thread].arrived
                    <= thread[u].arrived

(***************************************************************************)
(* Reader / writer protocol: progress                                      *)
(***************************************************************************)

\* A step of thread t in ReadAt or WriteAt.
ThreadStep(t) ==
    \/ R_Begin(t) \/ R_EnterP(t) \/ R_Inc(t) \/ R_Check(t)
    \/ R_LockWrite(t) \/ R_EnterV(t) \/ R_Read(t) \/ R_ExitP(t)
    \/ R_Dec(t) \/ R_CheckLast(t) \/ R_UnlockWrite(t) \/ R_ExitV(t)
    \/ W_Begin(t) \/ W_Lock(t) \/ W_Write(t) \/ W_Unlock(t)

\* Every thread that can take a step is eventually scheduled.
FairRW == \A t \in Threads : WF_vars(ThreadStep(t))

\* The calls of SpecRW, every thread scheduled fairly.
SpecRWFair == Init /\ [][NextRW]_vars /\ FairRW

\* The statement C26 denies: every WriteAt that waits for Can_Write
\* eventually enters its write section.
EveryWriteAtWrites == \A t \in Threads : (pc[t] = "w_P") ~> InWrite(t)

\* A schedule of the same calls: thread 1 only writes, the others only
\* read, and while the writer waits a reader starts to leave (line 141)
\* only when another reader is counted in.
Writer == 1

Readers == Threads \ {Writer}

KeepsOverlap == pc[Writer] = "w_P" => lectores >= 2

StarveStep(t) ==
    \/ t \in Readers /\ R_Begin(t)
    \/ R_EnterP(t) \/ R_Inc(t) \/ R_Check(t)
    \/ R_LockWrite(t) \/ R_EnterV(t) \/ R_Read(t)
    \/ KeepsOverlap /\ R_ExitP(t)
    \/ R_Dec(t) \/ R_CheckLast(t) \/ R_UnlockWrite(t) \/ R_ExitV(t)
    \/ t = Writer /\ W_Begin(t)
    \/ W_Lock(t) \/ W_Write(t) \/ W_Unlock(t)

NextStarve == \E t \in Threads : StarveStep(t)

SpecStarve ==
    Init /\ [][NextStarve]_vars /\ \A t \in Threads : WF_vars(StarveStep(t))

\* The writer waits on Can_Write->P() while readers hold Can_Write, and
\* the reader that is leaving, if any, is not the last one counted in.
Starved ==
    /\ pc[Writer] = "w_P"
    /\ Can_Write = 0
    /\ lectores - Cardinality({r \in Readers : pc[r] = "r_dec"}) >= 1

\* C26: there is an execution, fair to every thread, in which a WriteAt
\* blocked on Can_Write->P() never enters its write section because
\* overlapping ReadAt calls keep lectores above 0: every execution of the
\* schedule SpecStarve is an execution of the calls that is fair to every
\* thread, and once the writer waits behind the readers it waits for ever
\* while reads go on.
C26_WriterStarves ==
    /\ FairRW
    /\ [](Starved => [](pc[Writer] = "w_P" /\ lectores > 0))
    /\ [](Starved => []<>(\E r \in Readers : pc[r] = "r_inc"))

\* C26 witness: the writer waits while a reader is inside the read section.
C26_Witness == Starved /\ \E r \in Readers : InRead(r)

\* Calls of ReadAt and WriteAt in a run of finitely many calls.
MaxRWCalls == 4

\* A call of ReadAt, one of finitely many.
RF_ReadAt(t) ==
    /\ calls < MaxRWCalls
    /\ calls' = calls + 1
    /\ pc[t] = "idle"
    /\ Goto(t, "r_P1")
    /\ UNCHANGED <<lectores, Can_Read, Can_Write>>
    /\ UNCHANGED <<disk, freeMap, filetable, handles, fault, ccVars, schVars>>

\* A call of WriteAt, one of finitely many.
RF_WriteAt(t) ==
    /\ calls < MaxRWCalls
    /\ calls' = calls + 1
    /\ pc[t] = "idle"
    /\ Goto(t, "w_P")
    /\ UNCHANGED <<lectores, Can_Read, Can_Write>>
    /\ UNCHANGED <<disk, freeMap, filetable, handles, fault, ccVars, schVars>>

\* A step of thread t inside a call.
Proceed(t) ==
    \/ R_EnterP(t) \/ R_Inc(t) \/ R_Check(t) \/ R_LockWrite(t)
    \/ R_EnterV(t) \/ R_Read(t) \/ R_ExitP(t) \/ R_Dec(t)
    \/ R_CheckLast(t) \/ R_UnlockWrite(t) \/ R_ExitV(t)
    \/ W_Lock(t) \/ W_Write(t) \/ W_Unlock(t)

NextRWFin == \E t \in Threads : RF_ReadAt(t) \/ RF_WriteAt(t) \/ Proceed(t)

\* Finitely many calls; a thread that can go on inside its call is
\* eventually scheduled, so a thread inside a read or write section leaves it.
SpecRWFin ==
    Init /\ [][NextRWFin]_vars /\ \A t \in Threads : WF_vars(Proceed(t))

\* Every call has returned.
AllReturned == \A t \in Threads : pc[t] = "idle"

\* C27: with finitely many ReadAt and WriteAt calls on one node, every
\* call eventually returns, and whenever all calls have returned
\* lectores is 0 and Can_Read and Can_Write are both free (value 1).
C27_NoDeadlockAndRestored ==
    /\ \A t \in Threads : (pc[t] # "idle") ~> (pc[t] = "idle")
    /\ <>[]AllReturned
    /\ [](AllReturned => lectores = 0 /\ Can_Read = 1 /\ Can_Write = 1)

\* C27 witness: the last of the calls has returned.
C27_Witness ==
    calls = MaxRWCalls /\ AllReturned /\ lectores = 0 /\ Can_Write = 1

(***************************************************************************)
(* Claims on open files and removal                                        *)
(***************************************************************************)

\* C28: while a file has a live handle and users > 0, the bit of its header
\* sector and of each of its data sectors stays set in the persisted free
\* map, whatever Remove, RemoveDir or close of another handle is called.
C28_OpenFileKeepsSectors ==
    fault = "none" =>
    \A s \in Sectors :
        (handles[s] > 0 /\ filetable[s].present /\ filetable[s].users > 0) =>
            SectorsOf(St, s) \subseteq freeMap

\* C29: closing the last handle of a file marked for removal, whatever the
\* closing thread's working path, changes no other file or directory:
\* every other entry stays in its directory, and its header and the bits of
\* its sectors are as before.
C29_ReclaimOnlyThatFile ==
    fault = "none" =>
    \A s \in Sectors, cwd \in LiveCwds :
        ( /\ s > 1 /\ handles[s] = 1
          /\ filetable[s].present /\ filetable[s].remove
          /\ filetable[s].users = 1
          /\ FileEntriesOf(St, s) # {} ) =>
            \A x \in LiveEntries(St) :
                x.e.sector # s =>
                    /\ x \in LiveEntries(Destroy(St, s, cwd, 0))
                    /\ Destroy(St, s, cwd, 0).disk[x.e.sector]
                         = disk[x.e.sector]
                    /\ SectorsOf(St, x.e.sector) \cap freeMap
                         = SectorsOf(St, x.e.sector)
                             \cap Destroy(St, s, cwd, 0).map

(***************************************************************************)
(* Files read and written by several threads: a Write is two steps, up to  *)
(* its Can_Write->P() and from there on; a Read is one step, which the     *)
(* semaphores allow at any moment no write section is running.             *)
(***************************************************************************)

\* WriteAt, lines 156-165: the file system once the file has been grown,
\* and numBytes as settled.
WriteAtEnter(S, h, numBytes, position) ==
    LET grow == Length(S, h) < U(position + numBytes)
        ex == ExpandF(S, h.sector, ExpandSize(S, h, numBytes, position))
        S1 == IF grow THEN ex.st ELSE S
        n == IF grow /\ ex.ret # 1 THEN U(Length(S1, h) - position)
             ELSE numBytes
    IN IF ~ReadHdr(S, h.sector).ok
       THEN [st |-> Fault(S, "garbage"), numBytes |-> 0]
       ELSE IF S1.fault = "none" /\ ~(U(position + n) <= Length(S1, h))
       THEN [st |-> Fault(S1, "assert"), numBytes |-> n]
       ELSE [st |-> S1, numBytes |-> n]

\* The locals of thread t between line 165 and line 172 of WriteAt, called
\* by Write on handle k; length is Length() as the call found it.
InWriteAt(k, from, numBytes, length) ==
    [at |-> "w_P", op |-> "WriteAt", k |-> k, from |-> from,
     numBytes |-> numBytes, length |-> length]

\* No thread is inside a Write on handle k.
NotWriting(k) == \A t \in Callers : local[t].at = "w_P" => local[t].k # k

\* OpenFile::Write, line 86, and WriteAt, lines 156-165: thread t calls
\* Write on handle k and comes to Can_Write->P().
WA_Enter(t, k, from) ==
    /\ fault = "none" /\ calls < MaxIOCalls
    /\ local[t].at = "idle"
    /\ files[k].open /\ NotWriting(k)
    /\ Commit(WriteAtEnter(St, files[k], Len(from), files[k].seekPosition).st)
    /\ files' = [files EXCEPT ![k] =
                    FetchHdr(WriteAtEnter(St, files[k], Len(from),
                                          files[k].seekPosition).st, @)]
    /\ local' = [local EXCEPT ![t] =
                    InWriteAt(k, from,
                              WriteAtEnter(St, files[k], Len(from),
                                           files[k].seekPosition).numBytes,
                              Length(St, files[k]))]
    /\ UNCHANGED <<rwVars, schVars, handles>>

\* WriteAt, lines 172-178, and Write, lines 87-90: Can_Write->P(),
\* Internal_WriteAt, Can_Write->V(), and the seek position moves on.
WA_Write(t) ==
    /\ fault = "none"
    /\ local[t].at = "w_P"
    /\ IO_Written(local[t].k,
                  Internal_WriteAt(St, files[local[t].k], local[t].from,
                                   local[t].numBytes,
                                   files[local[t].k].seekPosition),
                  files[local[t].k])
    /\ local' = [local EXCEPT ![t] = IdleLocal]
    /\ UNCHANGED <<rwVars, schVars, handles>>

NextIOConc ==
    \/ \E p \in IOPaths, size \in IOSizes : IO_Create(p, size)
    \/ \E k \in Slots, p \in IOPaths : IO_Open(k, p)
    \/ \E k \in Slots, position \in SeekPositions :
           NotWriting(k) /\ IO_Seek(k, position)
    \/ \E k \in Slots, n \in IOCounts : NotWriting(k) /\ IO_Read(k, n)
    \/ \E t \in Callers, k \in Slots, from \in WriteBufs : WA_Enter(t, k, from)
    \/ \E t \in Callers : WA_Write(t)

SpecIOConc == Init /\ [][NextIOConc]_vars

\* C30: while a WriteAt that grows a file has not yet written, a ReadAt on
\* another handle of the file returns no byte of the added region: what it
\* returns ends at or before the length the WriteAt found.
C30_NoReadOfUnwrittenExtension ==
    fault = "none" =>
    \A t \in Callers, k \in Slots :
        (/\ local[t].at = "w_P"
         /\ files[k].open /\ k # local[t].k
         /\ files[k].sector = files[local[t].k].sector) =>
            \A n \in IOCounts, p \in SeekPositions :
                ReadAt(St, files[k], n, p).ret > 0 =>
                    p + ReadAt(St, files[k], n, p).ret <= local[t].length

(***************************************************************************)
(* Claims on the bytes WriteAt and ReadAt touch                            *)
(***************************************************************************)

\* Calls followed after the format where single reads and writes are
\* compared byte by byte.
MaxByteCalls == 4

NextBytes ==
    \/ \E p \in IOPaths, size \in IOSizes :
           calls < MaxByteCalls /\ IO_Create(p, size)
    \/ \E k \in Slots, p \in IOPaths : calls < MaxByteCalls /\ IO_Open(k, p)
    \/ \E k \in Slots : calls < MaxByteCalls /\ IO_Close(k)
    \/ \E k \in Slots, position \in SeekPositions :
           calls < MaxByteCalls /\ IO_Seek(k, position)
    \/ \E k \in Slots, from \in WriteBufs :
           calls < MaxByteCalls /\ IO_Write(k, from)
    \/ \E k \in Slots, n \in IOCounts : calls < MaxByteCalls /\ IO_Read(k, n)

SpecBytes == Init /\ [][NextBytes]_vars

\* The bytes [0, Length) of the file behind handle h, sector by sector from
\* the persisted header.
Contents(S, h) ==
    SubSeq(ReadSectors(S, FetchHdr(S, h), 0,
                       DivRoundUp(Length(S, h), SectorSize) - 1),
           1, Length(S, h))

\* What C31 requires of one WriteAt that returned r on contents old.
OnlyAddressedBytes(old, new, from, position, r) ==
    /\ \A j \in 1..Len(old) :
           j <= Len(new) /\ new[j] = (IF j > position /\ j <= position + r
                                      THEN from[j - position] ELSE old[j])
    /\ \A j \in (position + 1)..(position + r) :
           j <= Len(new) /\ new[j] = from[j - position]

\* C31: after WriteAt(buf, n, position) returns c, bytes [position,
\* position + c) of the file equal buf[0..c) and every other byte of the
\* file in [0, old Length) is unchanged, for every alignment of position and
\* position + c against the sector boundaries.
C31_WriteAtOnlyAddressedBytes ==
    \A k \in Slots : \A from \in WriteBufs : \A p \in SeekPositions :
        (fault = "none" /\ files[k].open) =>
            LET r == WriteAt(St, files[k], from, Len(from), p)
            IN r.st.fault = "none" =>
                   OnlyAddressedBytes(Contents(St, files[k]),
                                      Contents(r.st, files[k]), from, p, r.ret)

\* A write of one byte at position 1 has returned 1 on a file of zeroes:
\* head and tail of the write lie inside the first sector, and the bytes on
\* both sides are as they were.
C31_Witness ==
    \E k \in Slots :
        /\ fault = "none" /\ files[k].open
        /\ files[k].ret = 1 /\ files[k].seekPosition = 2
        /\ SectorSize >= 3 /\ Length(St, files[k]) >= 3
        /\ SubSeq(Contents(St, files[k]), 1, 3) = <<ZeroByte, "x", ZeroByte>>

\* What C32 requires of the count and the bytes ReadAt hands back.
ReadsTheFile(S, h, numBytes, position, r) ==
    /\ r.ret = (IF position < Length(S, h)
                THEN Min({numBytes, Length(S, h) - position}) ELSE 0)
    /\ r.into = SubSeq(Contents(S, h), position + 1, position + r.ret)

\* Every ReadAt a state allows hands back the file's bytes.
ReadAtReadsTheFile ==
    \A k \in Slots : \A n \in IOCounts : \A p \in SeekPositions :
        (fault = "none" /\ files[k].open) =>
            ReadsTheFile(St, files[k], n, p, ReadAt(St, files[k], n, p))

\* A Read leaves the disk, the free map and the tables as they were, hands
\* back the file's bytes and moves the handle's seek position by the count it
\* returned.
ReadStep(k, n) ==
    IO_Read(k, n) =>
        /\ disk' = disk /\ freeMap' = freeMap /\ filetable' = filetable
        /\ ReadsTheFile(St, files[k], n, files[k].seekPosition, files'[k])
        /\ files'[k].seekPosition = files[k].seekPosition + files'[k].ret

\* A handle's seek position changes in a Seek, or in a Read or Write, then by
\* the count returned.
SeekMoves(k) ==
    (files[k].open /\ files'[k].open
     /\ files'[k].seekPosition # files[k].seekPosition) =>
        \/ \E position \in SeekPositions : IO_Seek(k, position)
        \/ /\ (\E n \in IOCounts : IO_Read(k, n))
              \/ (\E from \in WriteBufs : IO_Write(k, from))
           /\ files'[k].seekPosition = files[k].seekPosition + files'[k].ret

\* C32: ReadAt(buf, n, position) returns min(n, Length - position) when
\* position < Length and 0 when position >= Length, copies exactly that many
\* bytes of the file starting at position into buf, and changes neither the
\* file contents, the header, nor the handle's seek position; only Read and
\* Write move the seek position, by exactly the count they return.
C32_ReadAtReadsAndKeeps ==
    /\ []ReadAtReadsTheFile
    /\ [][\A k \in Slots :
              SeekMoves(k) /\ \A n \in IOCounts : ReadStep(k, n)]_vars

\* A Read of more bytes than the file has left, from position 1, has
\* returned the rest of the file, and the seek position is at the end.
C32_Witness ==
    \E k \in Slots :
        /\ fault = "none" /\ files[k].open
        /\ files[k].ret = SectorSize - 1
        /\ files[k].into = [j \in 1..(SectorSize - 1) |-> ZeroByte]
        /\ files[k].seekPosition = SectorSize
        /\ Length(St, files[k]) = SectorSize

(***************************************************************************)
(* Claims on Expand and RemoveDir, on short runs of file-system calls      *)
(***************************************************************************)

\* Calls followed after the format where Expand and RemoveDir are compared
\* with the persisted header, directory and free map.
MaxTreeCalls == 5

NextTree ==
    \/ \E c \in LiveCalls, size \in CreateSizes :
           calls < MaxTreeCalls /\ CreateOp(c[1], c[2], size)
    \/ \E c \in LiveCalls : calls < MaxTreeCalls /\ OpenOp(c[1], c[2])
    \/ \E cwd \in LiveCwds, s \in Sectors :
           calls < MaxTreeCalls /\ CloseOp(cwd, s)
    \/ \E c \in LiveCalls : calls < MaxTreeCalls /\ RemoveOp(c[1], c[2])
    \/ \E c \in LiveCalls : calls < MaxTreeCalls /\ MakeDirOp(c[1], c[2])
    \/ \E c \in LiveCalls : calls < MaxTreeCalls /\ RemoveDirOp(c[1], c[2])
    \/ \E s \in Sectors, size \in ExpandSizes :
           calls < MaxTreeCalls /\ ExpandOp(s, size)

SpecTree == Init /\ [][NextTree]_vars

\* size of Expand in the comparison: inside a sector, a sector, across a
\* sector boundary, and past the longest file.
GrowSizes == {1, SectorSize, SectorSize + 1, MaxFileSize + 1}

\* What C33 requires of one Expand(sector, n) that returned r in state S.
AllOrNothing(S, sector, n, r) ==
    LET h == ReadHdr(S, sector)
        ex == Extend(h, S.map, n)
        g == ReadHdr(r.st, sector)
    IN /\ (r.ret = 1) <=> ex.ok
       /\ r.ret = 1 =>
              /\ g.ok /\ g.numBytes = h.numBytes + n
              /\ Len(g.dataSectors) = DivRoundUp(g.numBytes, SectorSize)
              /\ SubSeq(g.dataSectors, 1, Len(h.dataSectors)) = h.dataSectors
              /\ r.st.map = S.map \cup
                     {g.dataSectors[j] :
                          j \in (Len(h.dataSectors) + 1)..Len(g.dataSectors)}
              /\ \A j \in (Len(h.dataSectors) + 1)..Len(g.dataSectors) :
                     g.dataSectors[j] \notin S.map
       /\ r.ret # 1 =>
              /\ r.st.disk[sector] = S.disk[sector]
              /\ r.st.map = S.map

\* C33: Expand(sector, n) is all-or-nothing: it returns true exactly when
\* Extend succeeds, in which case both the grown header and the updated free
\* map are persisted; when Extend fails it returns false and neither the
\* persisted header at that sector nor the persisted free map changes.
C33_ExpandAllOrNothing ==
    \A s \in Sectors : \A n \in GrowSizes :
        (fault = "none" /\ handles[s] > 0 /\ ReadHdr(St, s).ok) =>
            AllOrNothing(St, s, n, ExpandF(St, s, n))

\* An Expand has grown an open file by a sector and filled the disk: the
\* next Expand by a sector fails for want of a clear sector, one by a byte
\* would succeed.
C33_Witness ==
    \E s \in Sectors :
        /\ fault = "none" /\ handles[s] > 0 /\ ReadHdr(St, s).ok
        /\ ReadHdr(St, s).numBytes = SectorSize
        /\ NumClear(St) = 0
        /\ ExpandF(St, s, SectorSize).ret = 0
        /\ ExpandF(St, s, MaxFileSize).ret = 0

RECURSIVE Subtree(_, _, _)
\* The sectors of the directory whose header is at hs and of everything
\* beneath it, as the persisted headers and tables give them: its header and
\* data sectors, and those of each file and sub-directory it lists.
Subtree(S, hs, fuel) ==
    SectorsOf(S, hs) \cup
    (IF fuel = 0 \/ ~FetchDir(S, hs).ok THEN {}
     ELSE UNION { IF e.isDir THEN Subtree(S, e.sector, fuel - 1)
                  ELSE SectorsOf(S, e.sector) :
                  e \in FetchDir(S, hs).table })

\* What C34 requires of RemoveDir(c) that returned r in state S, where the
\* path named the directory with header sector d.
SubtreeCleared(S, c, d, r) ==
    /\ DirSector(r.st, c) = -1
    /\ Subtree(S, d, NumSectors) \cap r.st.map = {}
    /\ \A s \in Sectors \ Subtree(S, d, NumSectors) :
           (s \in r.st.map) <=> (s \in S.map)

\* C34: after RemoveDir(path) on an existing non-root directory returns
\* true, the directory's entry is gone from the persisted parent directory
\* and, in the persisted free bitmap, the directory's header sector, its data
\* sectors, and the header and data sectors of every file and subdirectory
\* beneath it are clear; no sector outside that subtree changes its bit.
C34_RemoveDirClearsSubtree ==
    \A c \in LiveCalls :
        (fault = "none" /\ DirSector(St, c) # -1) =>
            LET r == RemoveDirF(St, c[1], c[2], 0)
            IN (r.st.fault = "none" /\ r.ret = 1) =>
                   SubtreeCleared(St, c, DirSector(St, c), r)

\* Calls followed where sectors freed by RemoveDir are handed out again
\* while handles on them are still open.
MaxReuseCalls == 10

ReusePaths ==
    { <<Slash, "d">>, <<Slash, "f">>, <<Slash, "d", Slash, "f">> }

\* A call that returns the file system S and no handle.
Reuse_Done(S) ==
    /\ fault = "none"
    /\ calls < MaxReuseCalls
    /\ Commit(S)
    /\ UNCHANGED handles
    /\ UNCHANGED <<rwVars, schVars, ccVars>>

Reuse_Open(path) ==
    /\ fault = "none"
    /\ calls < MaxReuseCalls
    /\ OpenDone(OpenF(St, RootCwd, path, 0))
    /\ UNCHANGED <<rwVars, schVars, ccVars>>

Reuse_RemoveDir(path) ==
    /\ FileSector(St, <<RootCwd, path>>) = -1
    /\ Reuse_Done(RemoveDirF(St, RootCwd, path, 0).st)

NextReuse ==
    \/ \E p \in ReusePaths : Reuse_Done(CreateF(St, RootCwd, p, 0, 0).st)
    \/ \E p \in ReusePaths : Reuse_Open(p)
    \/ \E p \in ReusePaths : Reuse_Done(RemoveF(St, RootCwd, p, 0).st)
    \/ \E p \in ReusePaths : Reuse_Done(MakeDirF(St, RootCwd, p, 0).st)
    \/ \E p \in ReusePaths : Reuse_RemoveDir(p)

SpecReuse == Init /\ [][NextReuse]_vars

(***************************************************************************)
(* Claims on what FindNextToRun returns and removes                        *)
(***************************************************************************)

\* The threads of one ready list, head first.
ItemsOf(list) == [j \in 1..Len(list) |-> list[j][1]]

\* A sequence of threads without thread t, the order kept.
Without(seq, t) == SelectSeq(seq, LAMBDA x : x # t)

RECURSIVE Drain(_, _)
\* The threads that successive calls of FindNextToRun return, up to the
\* first null or to fuel calls.
Drain(rl, fuel) ==
    IF fuel = 0 \/ FindNextToRun(rl).thread = NULL THEN <<>>
    ELSE <<FindNextToRun(rl).thread>>
         \o Drain(FindNextToRun(rl).lists, fuel - 1)

\* The threads handed to ReadyToRun and not returned since.
ReadySet == {t \in SchedThreads : Ready(t)}

\* C35: FindNextToRun returns null if and only if all three ready lists are
\* empty, and then changes nothing; otherwise it removes exactly the returned
\* thread from its list and leaves every other ready thread in place, so
\* over any sequence of calls each thread passed to ReadyToRun once is
\* returned exactly once.
C35_ReturnsEachReadyThreadOnce ==
    LET r == FindNextToRun(readyList)
        d == Drain(readyList, NumSchedThreads + 1)
    IN /\ (r.thread = NULL) <=> (\A i \in Tiers : readyList[i] = <<>>)
       /\ (r.thread = NULL) <=> (ReadySet = {})
       /\ r.thread = NULL => r.lists = readyList
       /\ r.thread # NULL =>
              /\ r.thread \in ReadySet
              /\ \A i \in Tiers :
                     /\ ItemsOf(r.lists[i]) = Without(ItemsOf(readyList[i]),
                                                      r.thread)
                     /\ Len(r.lists[i]) =
                            Len(readyList[i])
                            - (IF i = Tier(r.thread) THEN 1 ELSE 0)
       /\ Len(d) = Cardinality(ReadySet)
       /\ {d[j] : j \in 1..Len(d)} = ReadySet

\* All threads but one are ready, two of them in one tier, and the thread
\* returned earlier is the one to be run: the next calls return each ready
\* thread once.
C35_Witness ==
    /\ Cardinality(ReadySet) = NumSchedThreads - 1
    /\ \E a \in ReadySet, b \in ReadySet : a # b /\ Tier(a) = Tier(b)
    /\ nextThread # NULL /\ nextThread \notin ReadySet
    /\ Len(Drain(readyList, NumSchedThreads + 1)) = NumSchedThreads - 1

\* C36: FindNextToRun always returns a thread of maximal priority: it never
\* returns a thread T while another thread with a strictly greater priority
\* value than T is on a ready list, including when both threads fall in the
\* same tier (priorities 25 and 30, or 3 and 5).
C36_ReturnsMaximalPriority ==
    FindNextToRun(readyList).thread # NULL =>
        \A u \in SchedThreads :
            Ready(u) =>
                thread[u].priority
                    <= thread[FindNextToRun(readyList).thread].priority

====
